---- MODULE Spec2Model ----
(***************************************************************************)
(* Model of the markdown-to-HTML conversion pipeline (converter.ts) of the *)
(* Obsidian "Publish to Google Docs" plugin.                               *)
(*                                                                         *)
(* Strings are sequences of characters.  A character is a record           *)
(*   [c |-> the character, src |-> ..., ph |-> ...]                        *)
(* of which the program only ever reads c.  src and ph are history         *)
(* (ghost) fields used by the properties: src is the position the          *)
(* character had in the markdown handed to the extractors (0 for a         *)
(* character the program made up), ph is the placeholder the character was *)
(* issued as part of (<<>> for every other character).                     *)
(*                                                                         *)
(* The placeholder prefixes GDOCS_CB, GDOCS_CI, GDOCS_MD, GDOCS_MI and     *)
(* GDOCS_IM are single characters of the model's alphabet; the index that  *)
(* follows is spelled digit by digit, as the template literal spells it.   *)
(***************************************************************************)
EXTENDS Integers, Sequences, FiniteSets, TLC

\* ---------------------------------------------------------------------
\* Strings
\* ---------------------------------------------------------------------

\* A string literal of the program: characters with no history.
Lit(t) == [i \in 1..Len(t) |-> [c |-> t[i], src |-> 0, ph |-> <<>>]]

\* The markdown given to the pipeline: character i remembers its position.
Input(t) == [i \in 1..Len(t) |-> [c |-> t[i], src |-> i, ph |-> <<>>]]

\* What the program sees of a string.
Plain(s) == [i \in 1..Len(s) |-> s[i].c]

\* Number -> decimal digits, as `${n}` formats it.
DigitChar(d) ==
    CASE d = 0 -> "0" [] d = 1 -> "1" [] d = 2 -> "2" [] d = 3 -> "3"
      [] d = 4 -> "4" [] d = 5 -> "5" [] d = 6 -> "6" [] d = 7 -> "7"
      [] d = 8 -> "8" [] d = 9 -> "9"

RECURSIVE NumToString(_)
NumToString(n) ==
    IF n < 10 THEN <<DigitChar(n)>>
    ELSE NumToString(n \div 10) \o <<DigitChar(n % 10)>>

\* `${prefix}${n}`; every character of it remembers the placeholder.
Placeholder(prefix, n) ==
    LET p == <<prefix>> \o NumToString(n)
    IN  [i \in 1..Len(p) |-> [c |-> p[i], src |-> 0, ph |-> p]]

\* pat (plain characters) occurs in s at position i.
At(s, pat, i) ==
    /\ i >= 1
    /\ i + Len(pat) - 1 <= Len(s)
    /\ \A k \in 1..Len(pat) : s[i + k - 1].c = pat[k]

\* The least element of a non-empty set of numbers.
Min(S) == CHOOSE x \in S : \A y \in S : x <= y

\* String.prototype.indexOf(pat, from), 1-based; 0 when absent.
IndexOf(s, pat, from) ==
    LET hits == {k \in from..(Len(s) - Len(pat) + 1) : At(s, pat, k)}
    IN  IF hits = {} THEN 0 ELSE Min(hits)

\* String.prototype.includes
Includes(s, pat) == IndexOf(s, pat, 1) # 0

\* s.split(pat).join(rep): every occurrence of pat, found left to right
\* without overlap, is replaced by rep.
RECURSIVE SplitJoinFrom(_, _, _, _)
SplitJoinFrom(s, pat, rep, from) ==
    LET k == IndexOf(s, pat, from)
    IN  IF k = 0 THEN SubSeq(s, from, Len(s))
        ELSE SubSeq(s, from, k - 1) \o rep
                 \o SplitJoinFrom(s, pat, rep, k + Len(pat))

SplitJoin(s, pat, rep) == SplitJoinFrom(s, pat, rep, 1)

\* \s of the regular expressions, over the model's alphabet.
Whitespace == {" ", "\n"}

\* First position >= from whose character is in stop; 0 when there is none.
FirstOf(s, stop, from) ==
    LET hits == {k \in from..Len(s) : s[k].c \in stop}
    IN  IF hits = {} THEN 0 ELSE Min(hits)

\* String.prototype.trim
RECURSIVE TrimStart(_)
TrimStart(s) ==
    IF s # <<>> /\ s[1].c \in Whitespace THEN TrimStart(Tail(s)) ELSE s

RECURSIVE TrimEnd(_)
TrimEnd(s) ==
    IF s # <<>> /\ s[Len(s)].c \in Whitespace
    THEN TrimEnd(SubSeq(s, 1, Len(s) - 1)) ELSE s

Trim(s) == TrimEnd(TrimStart(s))

\* ---------------------------------------------------------------------
\* The regular expressions of the extractors.  MatchEnd(re, s, i) is the
\* last position of the match of re that starts at i, 0 when re does not
\* match at i.
\* ---------------------------------------------------------------------

\* The backtick character (a string literal of TLA+ cannot hold one).
BQ == "bq"

\* The code fence, three backticks.
Fence == <<BQ, BQ, BQ>>

\* Fenced code, /BQ BQ BQ [\s\S]*? BQ BQ BQ/ : to the nearest closing fence.
FencedEnd(s, i) ==
    IF ~At(s, Fence, i) THEN 0
    ELSE LET j == IndexOf(s, Fence, i + 3)
         IN  IF j = 0 THEN 0 ELSE j + 2

\* Inline code, /BQ [^BQ\n]+ BQ/ : one line, not empty, no backtick inside.
InlineCodeEnd(s, i) ==
    IF ~At(s, <<BQ>>, i) THEN 0
    ELSE LET k == FirstOf(s, {BQ, "\n"}, i + 1)
         IN  IF k # 0 /\ s[k].c = BQ /\ k >= i + 2 THEN k ELSE 0

\* Display math, /\$\$([\s\S]+?)\$\$/ : at least one character, then the
\* nearest closing pair.
DisplayMathEnd(s, i) ==
    IF ~At(s, <<"$", "$">>, i) THEN 0
    ELSE LET j == IndexOf(s, <<"$", "$">>, i + 3)
         IN  IF j = 0 THEN 0 ELSE j + 1

\* Inline math without the look-behind at the closing dollar.
InlineMathEndLoose(s, i) ==
    IF ~At(s, <<"$">>, i) THEN 0
    ELSE IF i > 1 /\ s[i - 1].c = "$" THEN 0
    ELSE IF i + 1 <= Len(s) /\ s[i + 1].c \in {"$"} \cup Whitespace THEN 0
    ELSE LET k == FirstOf(s, {"$", "\n"}, i + 1)
         IN  IF /\ k # 0
                /\ s[k].c = "$"
                /\ k >= i + 2
                /\ ~(k + 1 <= Len(s) /\ s[k + 1].c = "$")
             THEN k ELSE 0

\* Inline math, /(?<!\$)\$(?!\$|\s)([^$\n]+?)(?<!\s)\$(?!\$)/ .  The content
\* holds no dollar, so the closing dollar is the first one after the
\* opening; the look-arounds read the scanned string itself.
InlineMathEnd(s, i) ==
    IF ~At(s, <<"$">>, i) THEN 0
    ELSE IF i > 1 /\ s[i - 1].c = "$" THEN 0
    ELSE IF i + 1 <= Len(s) /\ s[i + 1].c \in {"$"} \cup Whitespace THEN 0
    ELSE LET k == FirstOf(s, {"$", "\n"}, i + 1)
         IN  IF /\ k # 0
                /\ s[k].c = "$"
                /\ k >= i + 2
                /\ s[k - 1].c \notin Whitespace
                /\ ~(k + 1 <= Len(s) /\ s[k + 1].c = "$")
             THEN k ELSE 0

\* Wikilink image, /!\[\[([^\]|]+?)(?:\|([^\]]*))?\]\]/ .  The path stops at
\* the first ] or |, the optional suffix at the first ].
WikiPathEnd(s, i) == FirstOf(s, {"]", "|"}, i + 3) - 1

WikiImageEnd(s, i) ==
    IF ~At(s, <<"!", "[", "[">>, i) THEN 0
    ELSE LET p == FirstOf(s, {"]", "|"}, i + 3)
         IN  IF p = 0 \/ p = i + 3 THEN 0
             ELSE IF s[p].c = "]"
                  THEN (IF At(s, <<"]", "]">>, p) THEN p + 1 ELSE 0)
                  ELSE LET q == FirstOf(s, {"]"}, p + 1)
                       IN  IF q # 0 /\ At(s, <<"]", "]">>, q)
                           THEN q + 1 ELSE 0

\* Markdown image, /!\[([^\]]*)\]\(([^)]+)\)/ .
MdImageAltEnd(s, i) == FirstOf(s, {"]"}, i + 2) - 1

MdImageEnd(s, i) ==
    IF ~At(s, <<"!", "[">>, i) THEN 0
    ELSE LET a == FirstOf(s, {"]"}, i + 2)
         IN  IF a = 0 \/ ~At(s, <<"]", "(">>, a) THEN 0
             ELSE LET q == FirstOf(s, {")"}, a + 2)
                  IN  IF q = 0 \/ q = a + 2 THEN 0 ELSE q

MatchEnd(re, s, i) ==
    CASE re = "fenced"      -> FencedEnd(s, i)
      [] re = "inlineCode"  -> InlineCodeEnd(s, i)
      [] re = "displayMath" -> DisplayMathEnd(s, i)
      [] re = "inlineMath"  -> InlineMathEnd(s, i)
      [] re = "wikiImage"   -> WikiImageEnd(s, i)
      [] re = "mdImage"     -> MdImageEnd(s, i)

\* ---------------------------------------------------------------------
\* Extraction records and the replace callbacks
\* ---------------------------------------------------------------------

\* null (of width: string | null).  The code sets width to null or to a
\* non-empty digit string and only tests its truthiness, so the empty
\* string stands for null.
Null == <<>>

Digits == {"0", "1", "2", "3", "4", "5", "6", "7", "8", "9"}

\* String.prototype.toLowerCase, over the letters of the model's alphabet.
LowerChar(ch) ==
    [ch EXCEPT !.c = CASE ch.c = "S" -> "s" [] ch.c = "V" -> "v"
                       [] ch.c = "G" -> "g" [] ch.c = "A" -> "a"
                       [] ch.c = "B" -> "b" [] OTHER -> ch.c]

\* A comparison that minds the case.
KeepCase(s) == s

ToLowerCase(s) == [i \in 1..Len(s) |-> LowerChar(s[i])]

EndsWith(s, pat) == At(s, pat, Len(s) - Len(pat) + 1)

\* A size test that knows the plain number only.
IsSizeNumberOnly(t) == t # <<>> /\ \A k \in 1..Len(t) : t[k].c \in Digits

\* /^\d+(?:x\d+)?$/.test(t)
IsSize(t) ==
    LET x == FirstOf(t, {"x"}, 1)
        allDigits(a, b) == a <= b /\ \A k \in a..b : t[k].c \in Digits
    IN  IF x = 0 THEN allDigits(1, Len(t))
        ELSE allDigits(1, x - 1) /\ allDigits(x + 1, Len(t))

\* t.split('x')[0]
BeforeX(t) ==
    LET x == FirstOf(t, {"x"}, 1)
    IN  IF x = 0 THEN t ELSE SubSeq(t, 1, x - 1)

\* decodeURIComponent.  "%20" decodes to a blank and "%2E" to a dot; the
\* alphabet holds no other well-formed escape, and a "%" that starts none
\* makes decodeURIComponent throw URIError.
RECURSIVE Malformed(_)
Malformed(s) ==
    IF s = <<>> THEN FALSE
    ELSE IF s[1].c # "%" THEN Malformed(Tail(s))
    ELSE IF At(s, <<"%", "2", "0">>, 1) \/ At(s, <<"%", "2", "E">>, 1)
         THEN Malformed(SubSeq(s, 4, Len(s)))
         ELSE TRUE

RECURSIVE DecodeURIComponent(_)
DecodeURIComponent(s) ==
    IF s = <<>> THEN <<>>
    ELSE IF At(s, <<"%", "2", "0">>, 1)
         THEN <<[s[1] EXCEPT !.c = " "]>>
                  \o DecodeURIComponent(SubSeq(s, 4, Len(s)))
    ELSE IF At(s, <<"%", "2", "E">>, 1)
         THEN <<[s[1] EXCEPT !.c = "."]>>
                  \o DecodeURIComponent(SubSeq(s, 4, Len(s)))
    ELSE <<s[1]>> \o DecodeURIComponent(Tail(s))

\* The callback of extractCodeBlocks' two replace calls.
CodeRecord(prefix, s, i, e, n) ==
    [placeholder |-> Placeholder(prefix, n), original |-> SubSeq(s, i, e)]

\* The callback of extractMath's two replace calls; the capture group is
\* the match without its delimiters (d characters on each side).
MathRecord(prefix, s, i, e, n, d, isDisplay) ==
    [placeholder |-> Placeholder(prefix, n),
     original    |-> SubSeq(s, i, e),
     isDisplay   |-> isDisplay,
     latex       |-> Trim(SubSeq(s, i + d, e - d))]

\* The callback of the wikilink replace: path up to | or ], sizeOrAlt
\* between | and ]] when there is a |.
WikiRecord(s, i, e, n) ==
    LET p         == WikiPathEnd(s, i)
        vaultPath == Trim(SubSeq(s, i + 3, p))
        sizeOrAlt == IF s[p + 1].c = "|" THEN SubSeq(s, p + 2, e - 2)
                     ELSE <<>>
        isSize    == sizeOrAlt # <<>> /\ IsSize(Trim(sizeOrAlt))
    IN  [placeholder |-> Placeholder("GDOCS_IM", n),
         original    |-> SubSeq(s, i, e),
         vaultPath   |-> vaultPath,
         alt         |-> IF sizeOrAlt # <<>> /\ ~isSize
                         THEN Trim(sizeOrAlt) ELSE <<>>,
         width       |-> IF isSize THEN BeforeX(Trim(sizeOrAlt)) ELSE Null,
         isSvg       |-> EndsWith(ToLowerCase(vaultPath),
                                  <<".", "s", "v", "g">>)]

\* The callback of the markdown-image replace.
MdImageRecord(s, i, e, n) ==
    LET a         == MdImageAltEnd(s, i)
        vaultPath == DecodeURIComponent(Trim(SubSeq(s, a + 3, e - 1)))
    IN  [placeholder |-> Placeholder("GDOCS_IM", n),
         original    |-> SubSeq(s, i, e),
         vaultPath   |-> vaultPath,
         alt         |-> SubSeq(s, i + 2, a),
         width       |-> Null,
         isSvg       |-> EndsWith(ToLowerCase(vaultPath),
                                  <<".", "s", "v", "g">>)]

Callback(re, s, i, e, n) ==
    CASE re = "fenced"      -> CodeRecord("GDOCS_CB", s, i, e, n)
      [] re = "inlineCode"  -> CodeRecord("GDOCS_CI", s, i, e, n)
      [] re = "displayMath" -> MathRecord("GDOCS_MD", s, i, e, n, 2, TRUE)
      [] re = "inlineMath"  -> MathRecord("GDOCS_MI", s, i, e, n, 1, FALSE)
      [] re = "wikiImage"   -> WikiRecord(s, i, e, n)
      [] re = "mdImage"     -> MdImageRecord(s, i, e, n)

\* s.replace(/re/g, callback): the matches are found left to right, each
\* search resuming after the previous match; the callback pushes a record
\* whose index is the length of the record list at that moment.
RECURSIVE ReplaceFrom(_, _, _, _, _)
ReplaceFrom(re, s, i, out, recs) ==
    LET starts == {j \in i..Len(s) : MatchEnd(re, s, j) # 0}
    IN  IF starts = {}
        THEN [cleaned |-> out \o SubSeq(s, i, Len(s)), recs |-> recs]
        ELSE LET j == Min(starts)
                 e == MatchEnd(re, s, j)
                 r == Callback(re, s, j, e, Len(recs))
             IN  ReplaceFrom(re, s, e + 1,
                             out \o SubSeq(s, i, j - 1) \o r.placeholder,
                             Append(recs, r))

Replace(re, s, recs) == ReplaceFrom(re, s, 1, <<>>, recs)

\* ---------------------------------------------------------------------
\* The extractors and restorers (pure functions)
\* ---------------------------------------------------------------------

\* stripFrontmatter: /^---\r?\n[\s\S]*?\r?\n---\r?\n?/ (the alphabet holds
\* no carriage return).
stripFrontmatter(markdown) ==
    LET open  == <<"-", "-", "-", "\n">>
        close == <<"\n", "-", "-", "-">>
        j     == IndexOf(markdown, close, 4)
    IN  IF ~At(markdown, open, 1) \/ j = 0 THEN markdown
        ELSE IF At(markdown, <<"\n">>, j + 4)
             THEN SubSeq(markdown, j + 5, Len(markdown))
             ELSE SubSeq(markdown, j + 4, Len(markdown))

extractCodeBlocks(markdown) ==
    LET fenced == Replace("fenced", markdown, <<>>)
        inline == Replace("inlineCode", fenced.cleaned, fenced.recs)
    IN  [cleaned |-> inline.cleaned, blocks |-> inline.recs]

\* The loop of restoreExtractions, from record i down to record 1.
RECURSIVE RestoreDown(_, _, _)
RestoreDown(text, extractions, i) ==
    IF i = 0 THEN text
    ELSE RestoreDown(SplitJoin(text, Plain(extractions[i].placeholder),
                               extractions[i].original),
                     extractions, i - 1)

\* The text given to the renderer with its code placeholders left in.
KeepExtractions(text, extractions) == text

restoreExtractions(text, extractions) ==
    RestoreDown(text, extractions, Len(extractions))

extractMath(markdown) ==
    LET display == Replace("displayMath", markdown, <<>>)
        inline  == Replace("inlineMath", display.cleaned, display.recs)
    IN  [cleaned |-> inline.cleaned, math |-> inline.recs]

extractImageEmbeds(markdown) ==
    LET wiki == Replace("wikiImage", markdown, <<>>)
        md   == Replace("mdImage", wiki.cleaned, wiki.recs)
    IN  [cleaned |-> md.cleaned, images |-> md.recs]

\* escapeHtml: & first, then <, > and the double quote.
EscapeChar(ch) ==
    CASE ch.c = "&"  -> <<ch, [ch EXCEPT !.c = "amp;"]>>
      [] ch.c = "<"  -> <<[ch EXCEPT !.c = "&"], [ch EXCEPT !.c = "lt;"]>>
      [] ch.c = ">"  -> <<[ch EXCEPT !.c = "&"], [ch EXCEPT !.c = "gt;"]>>
      [] ch.c = "\"" -> <<[ch EXCEPT !.c = "&"], [ch EXCEPT !.c = "quot;"]>>
      [] OTHER       -> <<ch>>

RECURSIVE escapeHtml(_)
escapeHtml(text) ==
    IF text = <<>> THEN <<>>
    ELSE EscapeChar(text[1]) \o escapeHtml(Tail(text))

\* Every record restored with the inline delimiters.
RestoredInline(m) ==
    Lit(<<"\\", "(">>) \o escapeHtml(m.latex) \o Lit(<<"\\", ")">>)

\* The text restoreMathInHtml puts in place of a record's placeholder.
Restored(m) ==
    IF m.isDisplay
    THEN Lit(<<"\\", "[">>) \o escapeHtml(m.latex) \o Lit(<<"\\", "]">>)
    ELSE Lit(<<"\\", "(">>) \o escapeHtml(m.latex) \o Lit(<<"\\", ")">>)

\* The loop of restoreMathInHtml, from record i up to the last record.
RECURSIVE RestoreMathUp(_, _, _)
RestoreMathUp(html, math, i) ==
    IF i > Len(math) THEN html
    ELSE RestoreMathUp(SplitJoin(html, Plain(math[i].placeholder),
                                 Restored(math[i])),
                       math, i + 1)

restoreMathInHtml(html, math) == RestoreMathUp(html, math, 1)

\* ---------------------------------------------------------------------
\* Inputs
\* ---------------------------------------------------------------------

\* All sequences of at most n elements of A.
SeqsUpTo(A, n) == UNION {[1..k -> A] : k \in 0..n}

RECURSIVE Flatten(_)
Flatten(ss) == IF ss = <<>> THEN <<>> ELSE Head(ss) \o Flatten(Tail(ss))

\* The markdown texts made of at most n of the fragments in F.
Texts(F, n) == {Input(Flatten(fs)) : fs \in SeqsUpTo(F, n)}

\* ---------------------------------------------------------------------
\* State
\* ---------------------------------------------------------------------

VARIABLES
    arg,        \* the argument of the function under test
    ret,        \* what the function under test returned so far
    fpc,        \* which function of the unit has been applied
    conv,       \* the locals of every running convertNoteToHtml invocation
    storeCalls  \* history: the calls of uploadImageFn made so far

vars == <<arg, ret, fpc, conv, storeCalls>>

\* No conversion is running (the state of the unit specifications).
NoConversion == conv = <<>> /\ storeCalls = {}

\* No function is under test (the state of the conversion specifications).
NoUnit == arg = <<>> /\ ret = [cleaned |-> <<>>, recs |-> <<>>, out |-> <<>>]
              /\ fpc = "none"

NoRet == [cleaned |-> <<>>, recs |-> <<>>, out |-> <<>>]

\* ---------------------------------------------------------------------
\* Unit: extractCodeBlocks, then restoreExtractions on its result
\* ---------------------------------------------------------------------

MaxCodeFrags == 5

CodeFrags ==
    {<<BQ>>, Fence, <<"a">>, <<"\n">>,
     <<"GDOCS_CB", "0">>, <<"GDOCS_CI", "0">>, <<"GDOCS_CI", "1">>}

CodecInit ==
    /\ arg \in Texts(CodeFrags, MaxCodeFrags)
    /\ ret = NoRet
    /\ fpc = "start"
    /\ NoConversion

CallExtractCodeBlocks ==
    /\ fpc = "start"
    /\ LET r == extractCodeBlocks(arg)
       IN  ret' = [ret EXCEPT !.cleaned = r.cleaned, !.recs = r.blocks]
    /\ fpc' = "extracted"
    /\ UNCHANGED <<arg, conv, storeCalls>>

CallRestoreExtractions ==
    /\ fpc = "extracted"
    /\ ret' = [ret EXCEPT !.out = restoreExtractions(ret.cleaned, ret.recs)]
    /\ fpc' = "restored"
    /\ UNCHANGED <<arg, conv, storeCalls>>

CodecNext == CallExtractCodeBlocks \/ CallRestoreExtractions

CodecSpec == CodecInit /\ [][CodecNext]_vars

\* A placeholder-shaped token occurs in the text.
HasPlaceholderToken(t) ==
    \E i \in 1..Len(t) :
        t[i].c \in {"GDOCS_CB", "GDOCS_CI", "GDOCS_MD", "GDOCS_MI", "GDOCS_IM"}

\* C1: for every markdown text, also one that holds a token shaped like a
\* code placeholder, restoring the extracted code spans into the cleaned
\* text gives the text back.
C1_RoundTrip ==
    fpc = "restored" => Plain(ret.out) = Plain(arg)

\* The round trip holds for the texts that hold no placeholder-shaped token.
C1_RoundTripNoToken ==
    (fpc = "restored" /\ ~HasPlaceholderToken(arg)) => ret.out = arg

C1_Witness ==
    /\ fpc = "restored"
    /\ ~HasPlaceholderToken(arg)
    /\ Len(ret.recs) >= 2
    /\ ret.out = arg

\* ---------------------------------------------------------------------
\* Unit: extractMath
\* ---------------------------------------------------------------------

MaxMathFrags == 6

MathFrags == {<<"$">>, <<"$", "$">>, <<"a">>, <<" ">>, <<"\n">>}

\* The three examples of the specification.
DisplayExample == <<"$", "$", "a", "=", "b", "$", "$">>
InlineExample  == <<"$", "a", "=", "b", "$">>
CurrencyExample ==
    <<"c", "o", "s", "t", "s", " ", "$", "5", " ", "o", "r", " ",
      "$", "1", "0">>

MathInit ==
    /\ arg \in Texts(MathFrags, MaxMathFrags)
                \cup {Input(DisplayExample), Input(InlineExample),
                      Input(CurrencyExample)}
    /\ ret = NoRet
    /\ fpc = "start"
    /\ NoConversion

CallExtractMath ==
    /\ fpc = "start"
    /\ LET r == extractMath(arg)
       IN  ret' = [ret EXCEPT !.cleaned = r.cleaned, !.recs = r.math]
    /\ fpc' = "extracted"
    /\ UNCHANGED <<arg, conv, storeCalls>>

MathNext == CallExtractMath

MathSpec == MathInit /\ [][MathNext]_vars

\* The positions of the text a string's characters come from.
SrcSet(s) == {s[k].src : k \in 1..Len(s)} \ {0}

HasChar(s, a, b, cs) == \E k \in a..b : s[k].c \in cs

\* arg is pre $$ inner $$ post, the opening pair at i and the closing pair
\* at j: no dollar outside the block, and inside it only single dollars,
\* none of them first or last.
SingleDisplayBlock(t, i, j) ==
    /\ At(t, <<"$", "$">>, i) /\ At(t, <<"$", "$">>, j) /\ j >= i + 3
    /\ ~HasChar(t, 1, i - 1, {"$"}) /\ ~HasChar(t, j + 2, Len(t), {"$"})
    /\ t[i + 2].c # "$" /\ t[j - 1].c # "$"
    /\ \A k \in (i + 2)..(j - 2) : ~At(t, <<"$", "$">>, k)

\* arg is pre $ content $ post with no other dollar, the content not empty.
SingleInlineSpan(t, i, j) ==
    /\ At(t, <<"$">>, i) /\ At(t, <<"$">>, j) /\ j >= i + 2
    /\ \A k \in 1..Len(t) : t[k].c = "$" => k \in {i, j}

\* What the specification requires of an inline span's content.
InlineContentOk(content) ==
    /\ ~HasChar(content, 1, Len(content), {"\n", "$"})
    /\ content[1].c \notin Whitespace
    /\ content[Len(content)].c \notin Whitespace

GoodPng    == <<"a", ".", "p", "n", "g">>
GoodSvg    == <<"b", ".", "s", "v", "g">>
Unreadable == <<"c", ".", "p", "n", "g">>   \* readBinary rejects
BadSvg     == <<"d", ".", "s", "v", "g">>   \* the rasterizer rejects
Unstorable == <<"e", ".", "j", "p", "g">>   \* uploadImageFn rejects
ExampleSvg == <<"a", ".", "s", "v", "g">>

VaultFiles == {GoodPng, GoodSvg, Unreadable, BadSvg, Unstorable, ExampleSvg}

\* null (of TFile | null)
NoFile == <<>>

\* app.metadataCache.getFirstLinkpathDest(vaultPath, file.path): the
\* file of that name, found without regard to the case of the link path.
getFirstLinkpathDest(vaultPath) ==
    LET name == [k \in 1..Len(vaultPath) |-> LowerChar(vaultPath[k]).c]
    IN  IF name \in VaultFiles THEN name ELSE NoFile

\* Position of the last dot of a file name.
RECURSIVE LastDot(_, _)
LastDot(name, k) ==
    IF k = 0 THEN 0 ELSE IF name[k] = "." THEN k ELSE LastDot(name, k - 1)

\* TFile.basename and TFile.extension (TFile.name is the name itself).
Basename(name)  == SubSeq(name, 1, LastDot(name, Len(name)) - 1)
Extension(name) == SubSeq(name, LastDot(name, Len(name)) + 1, Len(name))

\* The outcome of app.vault.readBinary, rasterizeSvgToPng and
\* uploadImageFn for a file of the vault.
readBinaryRejects(name)  == name = Unreadable
rasterizeRejects(name)   == name = BadSvg
uploadRejects(name)      == name = Unstorable

\* The locator uploadImageFn resolves to for a stored file.
PublicUrl(fileName) == Lit(<<"https://drive/">> \o fileName)

\* btoa of the bytes of a file, rasterized or as read.
Base64(name, rasterized) ==
    Lit(<<IF rasterized THEN "base64-of-png-of:" ELSE "base64-of:">> \o name)

\* MarkdownRenderer.render, then container.innerHTML: every line that is
\* not empty becomes a heading of level 1 or 2 when it starts with "# " or
\* "## ", a paragraph otherwise; every other character is passed through
\* as literal text.
RenderLine(line) ==
    IF At(line, <<"#", " ">>, 1)
    THEN Lit(<<"<h1>">>) \o SubSeq(line, 3, Len(line)) \o Lit(<<"</h1>">>)
    ELSE IF At(line, <<"#", "#", " ">>, 1)
    THEN Lit(<<"<h2>">>) \o SubSeq(line, 4, Len(line)) \o Lit(<<"</h2>">>)
    ELSE Lit(<<"<p>">>) \o line \o Lit(<<"</p>">>)

RECURSIVE RenderLines(_, _)
RenderLines(md, from) ==
    IF from > Len(md) THEN <<>>
    ELSE LET nl   == FirstOf(md, {"\n"}, from)
             end  == IF nl = 0 THEN Len(md) ELSE nl - 1
             line == SubSeq(md, from, end)
             rest == IF nl = 0 THEN <<>> ELSE RenderLines(md, nl + 1)
             para == RenderLine(line)
         IN  IF line = <<>> THEN rest
             ELSE IF rest = <<>> THEN para
             ELSE para \o Lit(<<"\n">>) \o rest

RenderMarkdown(md) == RenderLines(md, 1)

\* ---------------------------------------------------------------------
\* processAndRestoreImages: the per-image work and the substitution
\* ---------------------------------------------------------------------

\* The batch size of processAndRestoreImages.
BatchSize == 5

NotFoundTag(img) ==
    Lit(<<"<em>[Image not found: ">>) \o img.vaultPath \o Lit(<<"]</em>">>)

FailedTag(img) ==
    Lit(<<"<em>[Failed to process: ">>) \o img.vaultPath
        \o Lit(<<"]</em>">>)

\* mimeType, with image/jpg normalised to image/jpeg.
MimeType(img, name) ==
    LET m == IF img.isSvg THEN <<"image/", "p", "n", "g">>
             ELSE <<"image/">> \o Extension(name)
    IN  IF m = <<"image/", "j", "p", "g">>
        THEN <<"image/", "j", "p", "e", "g">> ELSE m

\* fileName, a rasterized file renamed from .svg to .png.
FileName(img, name) ==
    IF img.isSvg /\ Len(name) >= 4
          /\ Plain(ToLowerCase(Lit(SubSeq(name, Len(name) - 3, Len(name)))))
                = <<".", "s", "v", "g">>
    THEN SubSeq(name, 1, Len(name) - 4) \o <<".", "p", "n", "g">>
    ELSE name

\* data:${mimeType};base64,${base64}
DataUri(img, name) ==
    Lit(<<"data:">> \o MimeType(img, name) \o <<";base64,">>)
        \o Base64(name, img.isSvg)

\* The <img> tag built from src.
ImgTag(src, img, name) ==
    Lit(<<"<img src=\"">>) \o src \o Lit(<<"\" alt=\"">>)
        \o escapeHtml(IF img.alt # <<>> THEN img.alt ELSE Lit(Basename(name)))
        \o Lit(<<"\"">>)
        \o (IF img.width # Null
            THEN Lit(<<" width=\"">>) \o img.width \o Lit(<<"\"">>)
            ELSE <<>>)
        \o Lit(<<" style=\"max-width:100%;\">">>)

\* The for loop over processedResults: records first..last of the batch,
\* in array order; a placeholder wrapped in its own paragraph is replaced
\* with its wrapper, any other in place.
RECURSIVE Substitute(_, _, _, _, _)
Substitute(result, images, tags, first, last) ==
    IF first > last THEN result
    ELSE LET ph           == Plain(images[first].placeholder)
             blockPattern == <<"<p>">> \o ph \o <<"</p>">>
             next == IF Includes(result, blockPattern)
                     THEN SplitJoin(result, blockPattern, tags[first])
                     ELSE SplitJoin(result, ph, tags[first])
         IN  Substitute(next, images, tags, first + 1, last)

\* ---------------------------------------------------------------------
\* toc.ts: the table of contents
\* ---------------------------------------------------------------------

\* A tag is one character of the model's alphabet.  The heading tags:
\* the level of an opening tag (with or without attributes) and of a
\* closing tag, 0 for every other character.
OpenLevel(ch) ==
    CASE ch = "<h1>" -> 1
      [] ch \in {"<h2>", "<h2 class=\"x\">"} -> 2
      [] ch = "<h3>" -> 3
      [] OTHER -> 0

CloseLevel(ch) ==
    CASE ch = "</h1>" -> 1 [] ch = "</h2>" -> 2 [] ch = "</h3>" -> 3
      [] OTHER -> 0

Tags == {"<h1>", "<h2>", "<h2 class=\"x\">", "<h3>", "</h1>", "</h2>",
         "</h3>", "<b>", "</b>", "<p>", "</p>"}

\* /<h([1-6])(?:[^>]*)>([\s\S]*?)<\/h\1>/gi at position i: the position
\* of the first closing tag of the level of the opening tag at i.
HeadingEnd(s, i) ==
    IF OpenLevel(s[i].c) = 0 THEN 0
    ELSE LET closes == {j \in (i + 1)..Len(s) :
                           CloseLevel(s[j].c) = OpenLevel(s[i].c)}
         IN  IF closes = {} THEN 0 ELSE Min(closes)

\* content.replace(/<[^>]*>/g, '').trim()
RECURSIVE StripTags(_)
StripTags(s) ==
    IF s = <<>> THEN <<>>
    ELSE IF s[1].c \in Tags THEN StripTags(Tail(s))
    ELSE <<s[1]>> \o StripTags(Tail(s))

HeadingText(content) == Trim(StripTags(content))

LowerAlnum ==
    {"a", "b", "c", "d", "e", "f", "g", "h", "i", "j", "k", "l", "m", "n",
     "o", "p", "q", "r", "s", "t", "u", "v", "w", "x", "y", "z"}
        \cup Digits

\* .replace(/[^a-z0-9]+/g, '-')
RECURSIVE Dashed(_)
Dashed(s) ==
    IF s = <<>> THEN <<>>
    ELSE IF s[1].c \in LowerAlnum THEN <<s[1]>> \o Dashed(Tail(s))
    ELSE IF Len(s) > 1 /\ s[2].c \notin LowerAlnum THEN Dashed(Tail(s))
    ELSE Lit(<<"-">>) \o Dashed(Tail(s))

\* .replace(/^-|-$/g, '')
Undashed(s) ==
    LET a == IF s # <<>> /\ s[1].c = "-" THEN 2 ELSE 1
        b == IF Len(s) >= a /\ s[Len(s)].c = "-" THEN Len(s) - 1 ELSE Len(s)
    IN  SubSeq(s, a, b)

\* The length the slug is cut to.
SlugLength == 50

Slug(text) ==
    LET u == Undashed(Dashed(ToLowerCase(text)))
    IN  SubSeq(u, 1, IF Len(u) < SlugLength THEN Len(u) ELSE SlugLength)

\* An id that is the slug alone.
SlugOnly(counter, text) == Slug(text)

\* 'toc-' + counter + '-' + slug
TocId(counter, text) ==
    Lit(<<"t", "o", "c", "-">> \o NumToString(counter) \o <<"-">>)
        \o Slug(text)

\* Every heading counts, whatever its text.
AnyText(text) == TRUE

\* if (!text) continue / if (!text || ...) return match
NonEmptyText(text) == text # <<>>

\* The while loop of parseHeadings, from position i on.
RECURSIVE ParseFrom(_, _, _, _)
ParseFrom(html, i, counter, entries) ==
    LET starts == {j \in i..Len(html) : HeadingEnd(html, j) # 0}
    IN  IF starts = {} THEN entries
        ELSE LET j    == Min(starts)
                 e    == HeadingEnd(html, j)
                 text == HeadingText(SubSeq(html, j + 1, e - 1))
             IN  IF ~NonEmptyText(text)
                 THEN ParseFrom(html, e + 1, counter, entries)
                 ELSE ParseFrom(html, e + 1, counter + 1,
                          Append(entries,
                                 [level |-> OpenLevel(html[j].c),
                                  text  |-> text,
                                  id    |-> TocId(counter + 1, text)]))

parseHeadings(html) == ParseFrom(html, 1, 0, <<>>)

\* The base of the indentation is level 1.
FromLevelOne(entries) == 1

\* Math.min(...entries.map(e => e.level))
MinLevel(entries) == Min({entries[k].level : k \in 1..Len(entries)})

\* One <li> line of buildTocHtml.
TocLine(entry, minLevel) ==
    Lit(<<"<li style=\"padding-left:">>
            \o NumToString((entry.level - minLevel) * 20)
            \o <<"px;margin:4px 0;\">", "<a href=\"#">>)
        \o entry.id \o Lit(<<"\" style=link>">>) \o entry.text
        \o Lit(<<"</a></li>">>)

RECURSIVE TocLines(_, _, _)
TocLines(entries, k, minLevel) ==
    IF k > Len(entries) THEN <<>>
    ELSE Lit(<<"\n">>) \o TocLine(entries[k], minLevel)
             \o TocLines(entries, k + 1, minLevel)

buildTocHtml(entries) ==
    IF entries = <<>> THEN <<>>
    ELSE Lit(<<"<div style=toc>", "\n",
               "<p style=toc>Table of Contents</p>", "\n",
               "<ul style=toc>">>)
           \o TocLines(entries, 1, MinLevel(entries))
           \o Lit(<<"\n", "</ul>", "\n", "</div>">>)

\* <h${level} id=" and </h${level}>
OpenWithId(level) ==
    <<"<h1 id=\"", "<h2 id=\"", "<h3 id=\"">>[level]
CloseTag(level) == <<"</h1>", "</h2>", "</h3>">>[level]

\* The replace call of addTableOfContents, from position i on.
RECURSIVE InjectFrom(_, _, _, _, _)
InjectFrom(html, i, out, entries, entryIndex) ==
    LET starts == {j \in i..Len(html) : HeadingEnd(html, j) # 0}
    IN  IF starts = {} THEN out \o SubSeq(html, i, Len(html))
        ELSE LET j       == Min(starts)
                 e       == HeadingEnd(html, j)
                 level   == OpenLevel(html[j].c)
                 content == SubSeq(html, j + 1, e - 1)
                 before  == out \o SubSeq(html, i, j - 1)
             IN  IF ~NonEmptyText(HeadingText(content))
                       \/ entryIndex >= Len(entries)
                 THEN InjectFrom(html, e + 1,
                          before \o SubSeq(html, j, e), entries, entryIndex)
                 ELSE InjectFrom(html, e + 1,
                          before \o Lit(<<OpenWithId(level)>>)
                              \o entries[entryIndex + 1].id
                              \o Lit(<<"\">">>) \o content
                              \o Lit(<<CloseTag(level)>>),
                          entries, entryIndex + 1)

addTableOfContents(html) ==
    LET entries == parseHeadings(html)
        result  == InjectFrom(html, 1, <<>>, entries, 0)
        tocHtml == buildTocHtml(entries)
        h1End   == IndexOf(result, <<"</h1>">>, 1)
    IN  IF entries = <<>> THEN html
        ELSE IF h1End # 0
        THEN SubSeq(result, 1, h1End) \o Lit(<<"\n">>) \o tocHtml
                 \o Lit(<<"\n">>) \o SubSeq(result, h1End + 1, Len(result))
        ELSE tocHtml \o Lit(<<"\n">>) \o result

\* ---------------------------------------------------------------------
\* cleanHtmlForGoogleDocs and the document wrapper
\* ---------------------------------------------------------------------

\* The first position from k on that holds no whitespace.
RECURSIVE SkipWhitespace(_, _)
SkipWhitespace(html, k) ==
    IF k <= Len(html) /\ html[k].c \in Whitespace
    THEN SkipWhitespace(html, k + 1) ELSE k

\* A tag with attributes is spelled as its name ("<code"), one character
\* for each attribute (" class=\"x\""), and ">"; "<p>" is also one
\* character, as the renderer above emits it.
ClassAttrs == {" class=\"x\""}
DataAttrs  == {" data-a=\"b\""}
StyleAttrs == {" style=\"s\"", " style=pre", " style=code",
               " style=blockquote", " style=table", " style=th",
               " style=td"}

\* The position of the ">" that closes the tag whose name is at i.
TagClose(html, i) ==
    LET closes == {k \in (i + 1)..Len(html) : html[k].c = ">"}
    IN  IF closes = {} THEN Len(html) + 1 ELSE Min(closes)

\* html with the character StyleOf[name] put in after every position of P.
InsertStyles(html, P, StyleOf) ==
    [k \in 1..(Len(html) + Cardinality(P)) |->
        IF \E q \in P : k = q + Cardinality({r \in P : r <= q})
        THEN LET q == CHOOSE q \in P : k = q + Cardinality({r \in P : r <= q})
             IN  [c |-> StyleOf[html[q].c], src |-> 0, ph |-> <<>>]
        ELSE html[CHOOSE i \in 1..Len(html) :
                     i + Cardinality({r \in P : r < i}) = k]]

\* /<pre>/gi, /<code>/gi, /<blockquote>/gi -> the tag with the theme's
\* style: only the tag without any attribute matches.
BareStyles ==
    [x \in {"<pre", "<code", "<blockquote"} |->
        CASE x = "<pre" -> " style=pre" [] x = "<code" -> " style=code"
          [] x = "<blockquote" -> " style=blockquote"]

StyleBareTags(html) ==
    InsertStyles(html,
                 {i \in 1..(Len(html) - 1) :
                     html[i].c \in DOMAIN BareStyles /\ html[i + 1].c = ">"},
                 BareStyles)

\* /<table(?![^>]*style)/gi, /<th(?![^>]*style)/gi, /<td(?![^>]*style)/gi
CellStyles ==
    [x \in {"<table", "<th", "<td"} |->
        CASE x = "<table" -> " style=table" [] x = "<th" -> " style=th"
          [] x = "<td" -> " style=td"]

StyleTables(html) ==
    InsertStyles(html,
                 {i \in 1..Len(html) :
                     /\ html[i].c \in DOMAIN CellStyles
                     /\ \A k \in (i + 1)..(TagClose(html, i) - 1) :
                           html[k].c \notin StyleAttrs},
                 CellStyles)

\* .replace(/\s+class="[^"]*"/gi, '') and .replace(/\s+data-[a-z-]+="[^"]*"/gi, '')
StripAttrs(html, attrs) == SelectSeq(html, LAMBDA ch : ch.c \notin attrs)

\* <p> at i: the last position of the tag, 0 when there is none.
ParagraphOpenEnd(html, i) ==
    IF At(html, <<"<p>">>, i) THEN i
    ELSE IF At(html, <<"<p", ">">>, i) THEN i + 1
    ELSE 0

\* /<p>\s*<\/p>/ at i: the last position of the match, 0 when none.
EmptyParagraphEnd(html, i) ==
    IF i > Len(html) \/ ParagraphOpenEnd(html, i) = 0 THEN 0
    ELSE LET e == SkipWhitespace(html, ParagraphOpenEnd(html, i) + 1)
         IN  IF At(html, <<"</p>">>, e) THEN e ELSE 0

RECURSIVE RemoveEmptyParagraphs(_, _)
RemoveEmptyParagraphs(html, i) ==
    LET starts == {j \in i..Len(html) : EmptyParagraphEnd(html, j) # 0}
    IN  IF starts = {} THEN SubSeq(html, i, Len(html))
        ELSE LET j == Min(starts)
             IN  SubSeq(html, i, j - 1)
                   \o RemoveEmptyParagraphs(html,
                                            EmptyParagraphEnd(html, j) + 1)

\* /<mjx-container[^>]*>[\s\S]*?<\/mjx-container>/gi at i.
MathContainerEnd(html, i) ==
    IF ~At(html, <<"<mjx-container>">>, i) THEN 0
    ELSE LET closes == {k \in (i + 1)..Len(html) :
                           html[k].c = "</mjx-container>"}
         IN  IF closes = {} THEN 0 ELSE Min(closes)

RECURSIVE RemoveMathContainers(_, _)
RemoveMathContainers(html, i) ==
    LET starts == {j \in i..Len(html) : MathContainerEnd(html, j) # 0}
    IN  IF starts = {} THEN SubSeq(html, i, Len(html))
        ELSE LET j == Min(starts)
             IN  SubSeq(html, i, j - 1)
                   \o RemoveMathContainers(html,
                                           MathContainerEnd(html, j) + 1)

\* cleanHtmlForGoogleDocs, its rewrites in the order of the code.  The
\* alphabet holds no callout div and no internal link, which the first two
\* rewrites are about.
cleanHtmlForGoogleDocs(html) ==
    RemoveMathContainers(
        RemoveEmptyParagraphs(
            StripAttrs(StripAttrs(StyleTables(StyleBareTags(html)),
                                  ClassAttrs),
                       DataAttrs),
            1),
        1)

\* The complete document of step 11.
WrapDocument(title, headerText, footerText, html) ==
    Lit(<<"<!DOCTYPE html><html><head><meta charset><title>">>)
      \o title \o Lit(<<"</title></head><body style=theme>">>)
      \o (IF headerText # <<>>
          THEN Lit(<<"<p style=header>">>) \o escapeHtml(headerText)
                   \o Lit(<<"</p>">>)
          ELSE <<>>)
      \o Lit(<<"<h1 style=theme>">>) \o title \o Lit(<<"</h1>">>)
      \o html
      \o (IF footerText # <<>>
          THEN Lit(<<"<hr style=footer><p style=footer>">>)
                   \o escapeHtml(footerText) \o Lit(<<"</p>">>)
          ELSE <<>>)
      \o Lit(<<"</body></html>">>)

\* ---------------------------------------------------------------------
\* convertNoteToHtml as a state machine.  One action is the code that
\* runs, uninterrupted, from the settling of one awaited promise to the
\* next await.
\* ---------------------------------------------------------------------

\* The file being converted and what the vault and the renderer do with it.
Note(basename, content, readable, renderable) ==
    [basename |-> basename, content |-> content,
     readable |-> readable, renderable |-> renderable]

\* opts after the merge with DEFAULT_CONVERT_OPTIONS (includeToc stays at
\* its default, false), and whether uploadImageFn is non-null.
Options(imageMode, hasUploadFn, headerText, footerText) ==
    [imageMode |-> imageMode, hasUploadFn |-> hasUploadFn,
     headerText |-> headerText, footerText |-> footerText,
     includeToc |-> FALSE]

\* Steps 9 and 10: the clean-up, then the table of contents when asked for.
CleanAndToc(opts, html) ==
    IF opts.includeToc
    THEN addTableOfContents(cleanHtmlForGoogleDocs(html))
    ELSE cleanHtmlForGoogleDocs(html)

\* The locals of an invocation that has called app.vault.read.
NewInvocation(note, opts) ==
    [pc |-> "read", note |-> note, opts |-> opts,
     markdown |-> <<>>, noCodeMd |-> <<>>, codeBlocks |-> <<>>,
     noMathMd |-> <<>>, mathExtractions |-> <<>>,
     noImgMd |-> <<>>, imageExtractions |-> <<>>, renderMd |-> <<>>,
     component |-> "none",
     rendered |-> <<>>,   \* history: the html the renderer returned
     mathHtml |-> <<>>,   \* history: the html restoreMathInHtml returned
     html |-> <<>>,
     i |-> 0,             \* the loop variable of processAndRestoreImages
     tasks |-> <<>>,      \* the per-image async callbacks
     returned |-> <<>>, error |-> "none"]

IdleTask == [st |-> "idle", file |-> NoFile, tag |-> <<>>]

\* extractMath given the markdown that still holds its code spans.
MathInputRaw(noCodeMd, markdown) == markdown

\* The text extractMath is given (step 3).
MathInput(noCodeMd, markdown) == noCodeMd

\* restoreMathInHtml given the records of the first invocation.
MathOfFirst(p) == conv[1].mathExtractions

\* The records restoreMathInHtml is given (step 7).
MathOf(p) == conv[p].mathExtractions

\* extractImageEmbeds throws URIError: the path of some markdown image
\* does not decode.
MdPathMalformed(original) ==
    Malformed(Trim(SubSeq(original, MdImageAltEnd(original, 1) + 3,
                          Len(original) - 1)))

ThrowsURIError(markdown) ==
    LET wiki == Replace("wikiImage", markdown, <<>>)
        md   == Replace("mdImage", wiki.cleaned, <<>>)
    IN  \E k \in DOMAIN md.recs : MdPathMalformed(md.recs[k].original)

\* The images of the batch that starts at offset i (0-based, as in the
\* code): records i+1 .. min(i+5, n).
BatchFirst(c) == c.i + 1
BatchLast(c) ==
    IF c.i + BatchSize < Len(c.imageExtractions)
    THEN c.i + BatchSize ELSE Len(c.imageExtractions)

\* batch.map(async (img) => ...): every callback of the batch runs to its
\* first await: an image that does not resolve settles at once, any other
\* starts readBinary.
StartBatch(c) ==
    [c EXCEPT !.tasks =
        [k \in 1..Len(c.tasks) |->
            IF k < BatchFirst(c) \/ k > BatchLast(c) THEN c.tasks[k]
            ELSE LET img == c.imageExtractions[k]
                     f   == getFirstLinkpathDest(img.vaultPath)
                 IN  IF f = NoFile
                     THEN [st |-> "settled", file |-> NoFile,
                           tag |-> NotFoundTag(img)]
                     ELSE [st |-> "reading", file |-> f, tag |-> <<>>]]]

\* A Promise.race in place of Promise.all: one callback has settled.
AnySettled(c) ==
    \E k \in BatchFirst(c)..BatchLast(c) : c.tasks[k].st = "settled"

\* Promise.all over the callbacks of the batch has resolved.
BatchSettled(c) ==
    \A k \in BatchFirst(c)..BatchLast(c) : c.tasks[k].st = "settled"

Settle(p, k, tag) ==
    conv' = [conv EXCEPT ![p].tasks[k].st = "settled",
                         ![p].tasks[k].tag = tag]

\* app.vault.read resolves: steps 1 to 5, then renderMarkdownToHtml up to
\* the await of MarkdownRenderer.render.
VaultReadResolves(p) ==
    /\ conv[p].pc = "read"
    /\ conv[p].note.readable
    /\ \E markdown \in {stripFrontmatter(Input(conv[p].note.content))} :
       \E code \in {extractCodeBlocks(markdown)} :
       \E m \in {extractMath(MathInput(code.cleaned, markdown))} :
          IF ThrowsURIError(m.cleaned)
          THEN conv' = [conv EXCEPT ![p].pc = "rejected",
                                    ![p].error = "URIError"]
          ELSE \E im \in {extractImageEmbeds(m.cleaned)} :
                 conv' = [conv EXCEPT ![p] =
                     [conv[p] EXCEPT
                         !.pc = "render",
                         !.markdown = markdown,
                         !.noCodeMd = code.cleaned,
                         !.codeBlocks = code.blocks,
                         !.noMathMd = m.cleaned,
                         !.mathExtractions = m.math,
                         !.noImgMd = im.cleaned,
                         !.imageExtractions = im.images,
                         !.renderMd = restoreExtractions(im.cleaned,
                                                         code.blocks),
                         !.component = "loaded"]]
    /\ UNCHANGED <<arg, ret, fpc, storeCalls>>

\* app.vault.read rejects.
VaultReadRejects(p) ==
    /\ conv[p].pc = "read"
    /\ ~conv[p].note.readable
    /\ conv' = [conv EXCEPT ![p].pc = "rejected", ![p].error = "ReadError"]
    /\ UNCHANGED <<arg, ret, fpc, storeCalls>>

\* No finally block: the component stays as it is.
KeepLoaded(component) == component

\* component.unload() of the finally block of renderMarkdownToHtml.
Unload(component) == "unloaded"

\* MarkdownRenderer.render resolves: the finally block, step 7, then
\* processAndRestoreImages up to its first await (or to its return, when
\* there is no image).
RenderResolves(p) ==
    LET c    == conv[p]
        html == RenderMarkdown(c.renderMd)
        mh   == restoreMathInHtml(html, MathOf(p))
        n    == Len(c.imageExtractions)
        d    == [c EXCEPT !.component = Unload(c.component),
                          !.rendered = html, !.mathHtml = mh, !.html = mh,
                          !.tasks = [k \in 1..n |-> IdleTask]]
    IN  /\ c.pc = "render"
        /\ c.note.renderable
        /\ conv' = [conv EXCEPT ![p] =
                       IF n = 0 THEN [d EXCEPT !.pc = "cleanup"]
                       ELSE StartBatch([d EXCEPT !.pc = "batch"])]
        /\ UNCHANGED <<arg, ret, fpc, storeCalls>>

\* MarkdownRenderer.render rejects: the finally block runs, the error
\* propagates out of convertNoteToHtml.
RenderRejects(p) ==
    /\ conv[p].pc = "render"
    /\ ~conv[p].note.renderable
    /\ conv' = [conv EXCEPT ![p].pc = "rejected",
                            ![p].error = "RenderError",
                            ![p].component = Unload(conv[p].component)]
    /\ UNCHANGED <<arg, ret, fpc, storeCalls>>

\* The embed branch never taken.
NeverEmbeds(opts) == FALSE

\* opts.imageMode === 'embed'
Embeds(opts) == opts.imageMode = "embed"

\* The image bytes are at hand: embed them, or start the upload.
AfterBytes(p, k) ==
    LET c    == conv[p]
        img  == c.imageExtractions[k]
        name == c.tasks[k].file
    IN  IF Embeds(c.opts)
        THEN /\ Settle(p, k, ImgTag(DataUri(img, name), img, name))
             /\ UNCHANGED storeCalls
        ELSE IF ~c.opts.hasUploadFn
        THEN /\ Settle(p, k, FailedTag(img))
             /\ UNCHANGED storeCalls
        ELSE /\ conv' = [conv EXCEPT ![p].tasks[k].st = "storing"]
             /\ storeCalls' = storeCalls \cup
                    {[inv |-> p, image |-> k, name |-> FileName(img, name),
                      mimeType |-> MimeType(img, name),
                      rasterized |-> img.isSvg]}

ReadBinaryResolves(p, k) ==
    /\ conv[p].pc = "batch"
    /\ conv[p].tasks[k].st = "reading"
    /\ ~readBinaryRejects(conv[p].tasks[k].file)
    /\ IF conv[p].imageExtractions[k].isSvg
       THEN /\ conv' = [conv EXCEPT ![p].tasks[k].st = "rasterizing"]
            /\ UNCHANGED storeCalls
       ELSE AfterBytes(p, k)
    /\ UNCHANGED <<arg, ret, fpc>>

ReadBinaryRejects(p, k) ==
    /\ conv[p].pc = "batch"
    /\ conv[p].tasks[k].st = "reading"
    /\ readBinaryRejects(conv[p].tasks[k].file)
    /\ Settle(p, k, FailedTag(conv[p].imageExtractions[k]))
    /\ UNCHANGED <<arg, ret, fpc, storeCalls>>

RasterizeResolves(p, k) ==
    /\ conv[p].pc = "batch"
    /\ conv[p].tasks[k].st = "rasterizing"
    /\ ~rasterizeRejects(conv[p].tasks[k].file)
    /\ AfterBytes(p, k)
    /\ UNCHANGED <<arg, ret, fpc>>

RasterizeRejects(p, k) ==
    /\ conv[p].pc = "batch"
    /\ conv[p].tasks[k].st = "rasterizing"
    /\ rasterizeRejects(conv[p].tasks[k].file)
    /\ Settle(p, k, FailedTag(conv[p].imageExtractions[k]))
    /\ UNCHANGED <<arg, ret, fpc, storeCalls>>

UploadResolves(p, k) ==
    LET c    == conv[p]
        img  == c.imageExtractions[k]
        name == c.tasks[k].file
    IN  /\ c.pc = "batch"
        /\ c.tasks[k].st = "storing"
        /\ ~uploadRejects(name)
        /\ Settle(p, k, ImgTag(PublicUrl(FileName(img, name)), img, name))
        /\ UNCHANGED <<arg, ret, fpc, storeCalls>>

UploadRejects(p, k) ==
    /\ conv[p].pc = "batch"
    /\ conv[p].tasks[k].st = "storing"
    /\ uploadRejects(conv[p].tasks[k].file)
    /\ Settle(p, k, FailedTag(conv[p].imageExtractions[k]))
    /\ UNCHANGED <<arg, ret, fpc, storeCalls>>

\* Promise.all resolves: the substitution loop over the batch, then the
\* next batch up to its first await, or the return of
\* processAndRestoreImages.
BatchResolves(p) ==
    LET c    == conv[p]
        tags == [k \in 1..Len(c.tasks) |-> c.tasks[k].tag]
        d    == [c EXCEPT !.html = Substitute(c.html, c.imageExtractions,
                                              tags, BatchFirst(c),
                                              BatchLast(c)),
                          !.i = c.i + BatchSize]
    IN  /\ c.pc = "batch"
        /\ BatchSettled(c)
        /\ conv' = [conv EXCEPT ![p] =
                       IF d.i < Len(c.imageExtractions) THEN StartBatch(d)
                       ELSE [d EXCEPT !.pc = "cleanup"]]
        /\ UNCHANGED <<arg, ret, fpc, storeCalls>>

\* processAndRestoreImages has returned: steps 9 to 11 and the return.
Returns(p) ==
    LET c == conv[p]
    IN  /\ c.pc = "cleanup"
        /\ conv' = [conv EXCEPT ![p].pc = "done",
                                ![p].returned =
                                    WrapDocument(Lit(c.note.basename),
                                        Lit(c.opts.headerText),
                                        Lit(c.opts.footerText),
                                        CleanAndToc(c.opts, c.html))]
        /\ UNCHANGED <<arg, ret, fpc, storeCalls>>

\* ---------------------------------------------------------------------
\* The conversions explored
\* ---------------------------------------------------------------------

MaxMixFrags    == 5     \* fragments of a mixed note
MaxMath        == 11    \* math expressions of a note
MaxImages      == 11    \* images of a note of many images
MaxShortImages == 2     \* images of a note of assorted images
MaxInvocations == 2     \* conversions running at a time
MaxTocNoteFrags == 3    \* lines of a note converted with a table of contents

\* ![[name]] and ![alt](path)
Wiki(name)        == <<"!", "[", "[">> \o name \o <<"]", "]">>
MdImage(alt, path) == <<"!", "[">> \o alt \o <<"]", "(">> \o path \o <<")">>

Missing == <<"z", ".", "p", "n", "g">>   \* no file of the vault

\* Notes that mix code, math and an image.
MixFrags == {<<BQ>>, <<"$">>, <<"x">>, <<"\n">>, Wiki(GoodPng)}
FencedFrags == {Fence, <<"$", "x", "$">>, <<"\n">>, Wiki(GoodPng)}
MixedNotes ==
    {Note(<<"N">>, Flatten(fs), TRUE, TRUE) :
        fs \in SeqsUpTo(MixFrags, MaxMixFrags)
                 \cup SeqsUpTo(FencedFrags, MaxMixFrags - 1)}

\* k fragments, all f but the j-th, which is g.
RunWith(f, k, j, g) == Flatten([n \in 1..k |-> IF n = j THEN g ELSE f])

\* Notes of up to MaxMath math expressions, alike but for one.
MathRunFrags == {<<"$", "$", "a", "<", "$", "$", "\n">>,
                 <<"$", "b", "$", " ">>}
MathNotes ==
    {Note(<<"N">>, RunWith(f, k, j, g), TRUE, TRUE) :
        f \in MathRunFrags, k \in 0..MaxMath, j \in {0, 2},
        g \in MathRunFrags}

\* Notes of up to MaxImages images, alike but for one.
RunFrags  == {Wiki(GoodPng) \o <<"\n">>, Wiki(GoodPng) \o <<" ">>}
OtherFrags == {Wiki(Unreadable) \o <<" ">>, Wiki(Missing) \o <<" ">>,
               Wiki(GoodSvg) \o <<"\n">>}
ImageRunNotes ==
    {Note(<<"N">>, RunWith(f, k, j, g), TRUE, TRUE) :
        f \in RunFrags, k \in 0..MaxImages, j \in {0, 2},
        g \in OtherFrags}

\* Notes of a few images of every kind, and notes the vault or the
\* renderer fails on.
ImageFrags ==
    {Wiki(name) : name \in VaultFiles \cup {Missing}}
      \cup {Wiki(GoodPng \o <<"|", "4", "0", "x", "3">>),
            Wiki(GoodPng \o <<"|", "\"", "A">>),
            MdImage(<<"A">>, <<"a", "%", "2", "E", "p", "n", "g">>),
            MdImage(<<>>, <<"%">>),
            <<"\n">>}
ShortImageNotes ==
    {Note(<<"N">>, Flatten(fs), TRUE, TRUE) :
        fs \in SeqsUpTo(ImageFrags, MaxShortImages)}
      \cup {Note(<<"N">>, Flatten(fs), h[1], h[2]) :
               fs \in SeqsUpTo(ImageFrags, 1),
               h \in {<<FALSE, TRUE>>, <<TRUE, FALSE>>}}

\* Notes that refer to the vector image b.svg in every form.
SvgRefFrags ==
    {Wiki(<<"b", ".", "S", "V", "G">>),
     Wiki(<<" ">> \o GoodSvg \o <<"|", "2">>),
     MdImage(<<>>, <<"b", "%", "2", "E", "s", "v", "g">>),
     MdImage(<<"A">>, <<"b", ".", "S", "v", "g">>),
     Wiki(<<"d", ".", "s", "v", "G">>)}
SvgNotes ==
    {Note(<<"N">>, Flatten(fs), TRUE, TRUE) :
        fs \in SeqsUpTo(SvgRefFrags, MaxShortImages)}

\* Notes of headings and paragraphs, converted with a table of contents.
TocNoteFrags == {<<"#", " ", "A", "\n">>, <<"#", "#", " ", "B", "\n">>,
                 <<"#", " ", "\n">>, <<"x", "\n">>}
TocNotes ==
    {Note(<<"N">>, Flatten(fs), TRUE, TRUE) :
        fs \in SeqsUpTo(TocNoteFrags, MaxTocNoteFrags)}

\* The note "# Title\n\nPrice is $5.\n\n$$x^2$$\n\n![[a.svg]]".
EndToEndText ==
    <<"#", " ", "T", "i", "t", "l", "e", "\n", "\n",
      "P", "r", "i", "c", "e", " ", "i", "s", " ", "$", "5", ".", "\n", "\n",
      "$", "$", "x", "^", "2", "$", "$", "\n", "\n">> \o Wiki(ExampleSvg)
EndToEndNote == Note(<<"N">>, EndToEndText, TRUE, TRUE)

UploadOpts == Options("upload", TRUE, <<>>, <<>>)
TocOpts    == [UploadOpts EXCEPT !.includeToc = TRUE]
TocHeaderOpts ==
    [Options("upload", TRUE, <<"H">>, <<>>) EXCEPT !.includeToc = TRUE]
EmbedOpts  == Options("embed", FALSE, <<>>, <<>>)
EmbedFnOpts == Options("embed", TRUE, <<>>, <<>>)
NoFnOpts   == Options("upload", FALSE, <<"H", "&">>, <<"F">>)

Scenarios ==
    (MixedNotes \X {UploadOpts})
      \cup (MathNotes \X {UploadOpts})
      \cup (ImageRunNotes \X {UploadOpts, EmbedOpts})
      \cup (SvgNotes \X {UploadOpts, EmbedOpts})
      \cup (TocNotes \X {TocOpts, TocHeaderOpts})
      \cup ({EndToEndNote} \X {UploadOpts, EmbedOpts})
      \cup (ShortImageNotes
                \X {UploadOpts, EmbedOpts, EmbedFnOpts, NoFnOpts})

ConvertInit ==
    /\ NoUnit
    /\ storeCalls = {}
    /\ \E sc \in Scenarios : conv = <<NewInvocation(sc[1], sc[2])>>

\* The invocations and the image callbacks there can be.
Invocations == 1..MaxInvocations
ImageSlots  == 1..MaxImages

Running(p)   == p \in DOMAIN conv
Task(p, k)   == Running(p) /\ k \in DOMAIN conv[p].tasks

Next ==
    \/ \E p \in Invocations : Running(p) /\ VaultReadResolves(p)
    \/ \E p \in Invocations : Running(p) /\ VaultReadRejects(p)
    \/ \E p \in Invocations : Running(p) /\ RenderResolves(p)
    \/ \E p \in Invocations : Running(p) /\ RenderRejects(p)
    \/ \E p \in Invocations, k \in ImageSlots :
          Task(p, k) /\ ReadBinaryResolves(p, k)
    \/ \E p \in Invocations, k \in ImageSlots :
          Task(p, k) /\ ReadBinaryRejects(p, k)
    \/ \E p \in Invocations, k \in ImageSlots :
          Task(p, k) /\ RasterizeResolves(p, k)
    \/ \E p \in Invocations, k \in ImageSlots :
          Task(p, k) /\ RasterizeRejects(p, k)
    \/ \E p \in Invocations, k \in ImageSlots :
          Task(p, k) /\ UploadResolves(p, k)
    \/ \E p \in Invocations, k \in ImageSlots :
          Task(p, k) /\ UploadRejects(p, k)
    \/ \E p \in Invocations : Running(p) /\ BatchResolves(p)
    \/ \E p \in Invocations : Running(p) /\ Returns(p)

ConvertSpec == ConvertInit /\ [][Next]_vars

\* ---------------------------------------------------------------------
\* What a conversion is expected to produce
\* ---------------------------------------------------------------------

Conversions == DOMAIN conv

\* The invocation is past the extraction steps.
Extracted(c) == c.pc \in {"render", "batch", "cleanup", "done"}
                    \/ c.error = "RenderError"

\* The invocation is past restoreMathInHtml.
MathRestored(c) == c.pc \in {"batch", "cleanup", "done"}

\* The invocation is past processAndRestoreImages.
ImagesRestored(c) == c.pc \in {"cleanup", "done"}

\* The positions of the input that lie in a code span.
CodePositions(c) ==
    UNION {SrcSet(c.codeBlocks[b].original) : b \in DOMAIN c.codeBlocks}

\* Record k's placeholder stands at position i of html (a site of k).
SiteAt(html, recs, k, i) ==
    /\ html[i].ph = Plain(recs[k].placeholder)
    /\ At(html, html[i].ph, i)

\* The placeholder sites of html from position i on.
Sites(html, recs, i) ==
    {j \in i..Len(html) : \E k \in DOMAIN recs : SiteAt(html, recs, k, j)}

\* html from position i on, every placeholder site of a record k replaced
\* by reps[k].
RECURSIVE SitesReplaced(_, _, _, _)
SitesReplaced(html, recs, reps, i) ==
    LET sites == Sites(html, recs, i)
    IN  IF sites = {} THEN SubSeq(html, i, Len(html))
        ELSE LET j == Min(sites)
                 k == CHOOSE k \in DOMAIN recs : SiteAt(html, recs, k, j)
             IN  SubSeq(html, i, j - 1) \o reps[k]
                   \o SitesReplaced(html, recs, reps,
                                    j + Len(recs[k].placeholder))

\* The same for image sites: a site that is the whole content of a
\* paragraph is replaced together with the paragraph's tags.
RECURSIVE ImageSitesReplaced(_, _, _, _)
ImageSitesReplaced(html, recs, reps, i) ==
    LET sites == Sites(html, recs, i)
    IN  IF sites = {} THEN SubSeq(html, i, Len(html))
        ELSE LET j == Min(sites)
                 k == CHOOSE k \in DOMAIN recs : SiteAt(html, recs, k, j)
                 e == j + Len(recs[k].placeholder)
             IN  IF j - 1 >= i /\ html[j - 1].c = "<p>"
                               /\ At(html, <<"</p>">>, e)
                 THEN SubSeq(html, i, j - 2) \o reps[k]
                        \o ImageSitesReplaced(html, recs, reps, e + 1)
                 ELSE SubSeq(html, i, j - 1) \o reps[k]
                        \o ImageSitesReplaced(html, recs, reps, e)

\* The markup a math record is to be restored as.
MathMarkup(m) ==
    IF m.isDisplay
    THEN Lit(<<"\\", "[">>) \o escapeHtml(m.latex) \o Lit(<<"\\", "]">>)
    ELSE Lit(<<"\\", "(">>) \o escapeHtml(m.latex) \o Lit(<<"\\", ")">>)

\* The tag or marker an image is to end up as, given what the vault, the
\* rasterizer and the upload callback do with its file.
TagAlone(img, opts) ==
    LET f == getFirstLinkpathDest(img.vaultPath)
    IN  IF f = NoFile THEN NotFoundTag(img)
        ELSE IF readBinaryRejects(f) THEN FailedTag(img)
        ELSE IF img.isSvg /\ rasterizeRejects(f) THEN FailedTag(img)
        ELSE IF opts.imageMode = "embed"
             THEN ImgTag(DataUri(img, f), img, f)
        ELSE IF ~opts.hasUploadFn \/ uploadRejects(f) THEN FailedTag(img)
        ELSE ImgTag(PublicUrl(FileName(img, f)), img, f)

\* The image fails to resolve, read, rasterize or store.
Fails(img, opts) ==
    TagAlone(img, opts) \in {NotFoundTag(img), FailedTag(img)}

InFlight(c) ==
    {k \in DOMAIN c.tasks :
        c.tasks[k].st \in {"reading", "rasterizing", "storing"}}

\* ---------------------------------------------------------------------
\* Claims about a conversion
\* ---------------------------------------------------------------------

\* The note that is the inline code span BQ $x$ BQ.
CodeSpanExample == <<BQ, "$", "x", "$", BQ>>

\* C2: code spans are extracted first, so no math record and no image
\* record of a conversion has an original made of characters of a fenced
\* code block or inline code span of the input; the note that is the code
\* span BQ $x$ BQ yields no math record and reaches the renderer unchanged.
C2_CodeFirst ==
    \A p \in Conversions :
        LET c == conv[p]
        IN  /\ \A k \in DOMAIN c.mathExtractions :
                  SrcSet(c.mathExtractions[k].original)
                      \cap CodePositions(c) = {}
            /\ \A k \in DOMAIN c.imageExtractions :
                  SrcSet(c.imageExtractions[k].original)
                      \cap CodePositions(c) = {}
            /\ (Extracted(c) /\ c.note.content = CodeSpanExample) =>
                  /\ c.mathExtractions = <<>>
                  /\ Plain(c.renderMd) = CodeSpanExample

\* A conversion has extracted a code span that holds an inline math
\* expression or a wikilink image, and math or an image outside of it.
C2_Witness ==
    \E p \in Conversions :
        LET c == conv[p]
        IN  /\ Extracted(c)
            /\ \E i \in 1..Len(c.markdown) :
                  /\ c.markdown[i].src \in CodePositions(c)
                  /\ \/ InlineMathEnd(c.markdown, i) # 0
                     \/ WikiImageEnd(c.markdown, i) # 0
            /\ Len(c.mathExtractions) + Len(c.imageExtractions) >= 1

\* C3: for any number of math records, restoreMathInHtml replaces every
\* math placeholder of the rendered html with the escaped latex of that
\* same record, in \( \) when inline and \[ \] when display.
C3_MathRestored ==
    \A p \in Conversions :
        LET c == conv[p]
        IN  MathRestored(c) =>
              Plain(c.mathHtml)
                = Plain(SitesReplaced(c.rendered, c.mathExtractions,
                          [k \in DOMAIN c.mathExtractions |->
                              MathMarkup(c.mathExtractions[k])], 1))

\* C4: for any number of images, after processAndRestoreImages every image
\* placeholder site of the html holds the tag or marker produced for that
\* same image (which makes the html independent of the substitution
\* order).
C4_ImageSites ==
    \A p \in Conversions :
        LET c == conv[p]
        IN  ImagesRestored(c) =>
              Plain(c.html)
                = Plain(ImageSitesReplaced(c.mathHtml, c.imageExtractions,
                          [k \in DOMAIN c.tasks |-> c.tasks[k].tag], 1))

\* C5: at every moment at most 5 per-image operations are in flight, and
\* no operation of a batch has started before every operation of the
\* batches before it has completed.
C5_Batches ==
    \A p \in Conversions :
        LET c == conv[p]
        IN  /\ Cardinality(InFlight(c)) <= 5
            /\ \A j, k \in DOMAIN c.tasks :
                  (c.tasks[k].st # "idle" /\ (j - 1) \div 5 < (k - 1) \div 5)
                      => c.tasks[j].st = "settled"

\* The second batch of a conversion has five operations in flight.
C5_Witness ==
    \E p \in Conversions :
        /\ conv[p].i = 5
        /\ Cardinality(InFlight(conv[p])) = 5
        /\ \A j \in 1..5 : conv[p].tasks[j].st = "settled"

\* C6: processAndRestoreImages never rejects; the placeholder of every
\* image that fails to resolve, read, rasterize or store is replaced by a
\* marker naming that image, the placeholder of every other image by its
\* img tag.
C6_FailureIsolation ==
    \A p \in Conversions :
        LET c == conv[p]
        IN  /\ c.pc = "rejected" => c.tasks = <<>>
            /\ ImagesRestored(c) =>
                 Plain(c.html)
                   = Plain(ImageSitesReplaced(c.mathHtml,
                             c.imageExtractions,
                             [k \in DOMAIN c.imageExtractions |->
                                 TagAlone(c.imageExtractions[k], c.opts)],
                             1))

\* C7: in image mode embed uploadImageFn is never called, whatever the
\* images and their outcomes, and every image that is processed
\* successfully gets a data: URI as src.
C7_EmbedNeverStores ==
    \A p \in Conversions :
        LET c == conv[p]
        IN  c.opts.imageMode = "embed" =>
              /\ \A call \in storeCalls : call.inv # p
              /\ \A k \in DOMAIN c.tasks :
                    /\ c.tasks[k].st # "storing"
                    /\ (c.tasks[k].st = "settled"
                          /\ ~Fails(c.imageExtractions[k],
                                    [c.opts EXCEPT !.hasUploadFn = TRUE]))
                       => At(c.tasks[k].tag, <<"<img src=\"", "data:">>, 1)

\* An embed-mode conversion that was given an upload callback has
\* returned, a rasterized image among its images.
C7_Witness ==
    \E p \in Conversions :
        LET c == conv[p]
        IN  /\ c.opts.imageMode = "embed"
            /\ c.opts.hasUploadFn
            /\ c.pc = "done"
            /\ \E k \in DOMAIN c.tasks :
                  /\ c.imageExtractions[k].isSvg
                  /\ At(c.tasks[k].tag, <<"<img src=\"", "data:">>, 1)

\* What holds of a conversion whose renderer threw.
RenderFailed(c) ==
    /\ c.pc = "rejected"
    /\ c.returned = <<>>
    /\ c.mathHtml = <<>> /\ c.html = <<>>
    /\ c.tasks = <<>>
    /\ c.component = "unloaded"

\* C8: if the renderer throws, convertNoteToHtml rejects with that error,
\* returns no html and performs no later stage (no math restoration, no
\* image read, rasterize or store, no cleanup); the render component is
\* unloaded.
C8_RenderFailureFatal ==
    /\ [](\A p \in Conversions :
             /\ conv[p].error = "RenderError" =>
                    /\ RenderFailed(conv[p])
                    /\ \A call \in storeCalls : call.inv # p
             /\ (conv[p].pc = "render") => conv[p].component = "loaded")
    /\ [][\A p \in Conversions :
             /\ (conv[p].pc = "render" /\ ~conv[p].note.renderable
                    /\ conv'[p] # conv[p])
                  => conv'[p].error = "RenderError"
             /\ conv[p].pc = "rejected" => conv'[p] = conv[p]]_vars

\* The renderer threw on a note that holds an image.
C8_Witness ==
    \E p \in Conversions :
        /\ conv[p].error = "RenderError"
        /\ conv[p].imageExtractions # <<>>
        /\ conv[p].component = "unloaded"

\* ---------------------------------------------------------------------
\* Two conversions at a time
\* ---------------------------------------------------------------------

ConcurrentNotes ==
    {Note(<<"A">>, <<"$", "a", "<", "$", " ">> \o Wiki(GoodSvg), TRUE, TRUE),
     Note(<<"B">>, <<BQ, "c", BQ, " ", "$", "$", "d", "$", "$", " ">>
                     \o Wiki(BadSvg) \o <<"\n">> \o Wiki(Unstorable),
          TRUE, TRUE),
     Note(<<"C">>, Wiki(Unreadable) \o <<"\n", "$", "e", "$">>, TRUE, TRUE),
     Note(<<"D">>, <<"x">>, FALSE, TRUE),
     Note(<<"E">>, <<"$", "f", "$">>, TRUE, FALSE)}

ConcurrentInit ==
    /\ NoUnit
    /\ storeCalls = {}
    /\ \E n1, n2 \in ConcurrentNotes :
       \E o1, o2 \in {UploadOpts, EmbedFnOpts} :
          /\ n1 # n2
          /\ conv = <<NewInvocation(n1, o1), NewInvocation(n2, o2)>>

ConcurrentSpec == ConcurrentInit /\ [][Next]_vars

\* convertNoteToHtml run alone, one step after the other.
ConvertAlone(note, opts) ==
    IF ~note.readable THEN [pc |-> "rejected", error |-> "ReadError",
                            returned |-> <<>>]
    ELSE
    LET markdown == stripFrontmatter(Input(note.content))
        code     == extractCodeBlocks(markdown)
        m        == extractMath(code.cleaned)
    IN  IF ThrowsURIError(m.cleaned)
        THEN [pc |-> "rejected", error |-> "URIError", returned |-> <<>>]
        ELSE IF ~note.renderable
        THEN [pc |-> "rejected", error |-> "RenderError", returned |-> <<>>]
        ELSE
        LET im       == extractImageEmbeds(m.cleaned)
            renderMd == restoreExtractions(im.cleaned, code.blocks)
            mathHtml == restoreMathInHtml(RenderMarkdown(renderMd), m.math)
            tags     == [k \in DOMAIN im.images |->
                            TagAlone(im.images[k], opts)]
            html     == Substitute(mathHtml, im.images, tags, 1,
                                   Len(im.images))
        IN  [pc |-> "done", error |-> "none",
             returned |-> WrapDocument(Lit(note.basename),
                              Lit(opts.headerText), Lit(opts.footerText),
                              CleanAndToc(opts, html))]

\* C9: two invocations over different notes, interleaved at any of their
\* awaits, each return the html (or reject with the error) they return
\* when run alone.
C9_NoInterference ==
    \A p \in Conversions :
        LET c     == conv[p]
            alone == ConvertAlone(c.note, c.opts)
        IN  /\ c.pc = "done" =>
                 /\ alone.pc = "done"
                 /\ Plain(c.returned) = Plain(alone.returned)
            /\ c.pc = "rejected" =>
                 /\ alone.pc = "rejected"
                 /\ c.error = alone.error

\* Two conversions of different notes, both with math and images, have
\* both returned.
C9_Witness ==
    /\ Len(conv) = 2
    /\ conv[1].note # conv[2].note
    /\ \A p \in Conversions :
          /\ conv[p].pc = "done"
          /\ conv[p].mathExtractions # <<>>
          /\ conv[p].imageExtractions # <<>>

\* C12: an image reference that resolved to a vector image of the vault is
\* stored or embedded only as the rasterizer's output: the stored name ends
\* in .png, the MIME type is image/png, and the bytes of the .svg file are
\* never handed to uploadImageFn nor base64-encoded into a tag.
C12_SvgRasterized ==
    \A p \in Conversions : \A k \in DOMAIN conv[p].tasks :
       LET t == conv[p].tasks[k]
       IN  (t.file # NoFile /\ Extension(t.file) = <<"s", "v", "g">>) =>
             /\ \A call \in storeCalls :
                   (call.inv = p /\ call.image = k) =>
                     /\ call.rasterized
                     /\ call.mimeType = <<"image/", "p", "n", "g">>
                     /\ Len(call.name) > 4
                     /\ SubSeq(call.name, Len(call.name) - 3,
                               Len(call.name)) = <<".", "p", "n", "g">>
             /\ \A j \in 1..Len(t.tag) :
                   /\ t.tag[j].c # "base64-of:"
                   /\ t.tag[j].c = "data:" =>
                         Plain(SubSeq(t.tag, j + 1, j + 6))
                           = <<"image/", "p", "n", "g", ";base64,",
                               "base64-of-png-of:">>

\* A link path in capitals resolved to b.svg and its raster was handed to
\* uploadImageFn, next to a percent-encoded markdown image of the same file.
C12_Witness ==
    \E p \in Conversions : \E k, j \in DOMAIN conv[p].tasks :
       /\ conv[p].tasks[k].file = GoodSvg
       /\ \E n \in 1..Len(conv[p].imageExtractions[k].vaultPath) :
             conv[p].imageExtractions[k].vaultPath[n].c = "S"
       /\ \E call \in storeCalls :
             call.inv = p /\ call.image = k /\ call.rasterized
       /\ conv[p].tasks[j].file = GoodSvg
       /\ \E n \in 1..Len(conv[p].imageExtractions[j].original) :
             conv[p].imageExtractions[j].original[n].c = "%"
       /\ conv[p].tasks[j].st = "settled"

\* The block of the table of contents in a string, 0 when there is none.
TocBlockAt(s) == IndexOf(s, <<"<div style=toc>">>, 1)

\* C16: the table of contents stands immediately after the first level-1
\* heading of the document convertNoteToHtml returns when includeToc is
\* set and a heading has text.
C16_TocAfterFirstH1 ==
    \A p \in Conversions :
       LET out == conv[p].returned
           h1  == IndexOf(out, <<"</h1>">>, 1)
       IN  (conv[p].pc = "done" /\ conv[p].opts.includeToc
                /\ TocBlockAt(out) # 0) =>
              /\ h1 # 0
              /\ \/ TocBlockAt(out) = h1 + 1
                 \/ TocBlockAt(out) = h1 + 2 /\ out[h1 + 1].c = "\n"

\* The prefixes of the placeholder tokens, and whether html holds one.
Prefixes == {"GDOCS_CB", "GDOCS_CI", "GDOCS_MD", "GDOCS_MI", "GDOCS_IM"}

HasToken(html) == \E i \in 1..Len(html) : html[i].c \in Prefixes

\* Characters first..last of the note are in html, in order and adjacent.
Verbatim(html, note, first, last) ==
    \E i \in 1..Len(html) :
        /\ i + (last - first) <= Len(html)
        /\ \A k \in 0..(last - first) :
               html[i + k] = Input(note.content)[first + k]

StagesChained(c) ==
    c.pc = "render" =>
       /\ c.noCodeMd = extractCodeBlocks(c.markdown).cleaned
       /\ c.codeBlocks = extractCodeBlocks(c.markdown).blocks
       /\ c.noMathMd = extractMath(c.noCodeMd).cleaned
       /\ c.mathExtractions = extractMath(c.noCodeMd).math
       /\ c.noImgMd = extractImageEmbeds(c.noMathMd).cleaned
       /\ c.imageExtractions = extractImageEmbeds(c.noMathMd).images
       /\ c.renderMd = restoreExtractions(c.noImgMd, c.codeBlocks)
       /\ \A i \in 1..Len(c.renderMd) :
              c.renderMd[i].c \notin {"GDOCS_CB", "GDOCS_CI"}
       /\ c.rendered = <<>> /\ c.mathHtml = <<>> /\ c.html = <<>>

\* The positions of convertNoteToHtml in the order the code reaches them.
StageRank(pc) ==
    CASE pc = "read" -> 1 [] pc = "render" -> 2 [] pc = "batch" -> 3
      [] pc = "cleanup" -> 4 [] pc = "done" -> 5 [] pc = "rejected" -> 6

\* One step of an invocation from c to d keeps the order of the stages:
\* the renderer's result goes to the math restorer and its result to
\* the image resolver; the cleanup and then the table of contents work
\* on the resolver's result; what a stage returned is not changed later.
StepInOrder(c, d) ==
    /\ StageRank(d.pc) >= StageRank(c.pc)
    /\ d.pc \in {"batch", "cleanup"} => c.pc \in {"render", "batch"}
    /\ d.pc = "done" => c.pc \in {"cleanup", "done"}
    /\ (c.pc = "render" /\ d.pc \in {"batch", "cleanup"}) =>
          /\ d.rendered = RenderMarkdown(c.renderMd)
          /\ d.mathHtml = restoreMathInHtml(d.rendered, c.mathExtractions)
          /\ d.html = d.mathHtml
    /\ (c.pc = "cleanup" /\ d.pc = "done") =>
          d.returned =
             WrapDocument(Lit(c.note.basename), Lit(c.opts.headerText),
                 Lit(c.opts.footerText),
                 IF c.opts.includeToc
                 THEN addTableOfContents(cleanHtmlForGoogleDocs(c.html))
                 ELSE cleanHtmlForGoogleDocs(c.html))
    /\ c.pc # "read" =>
          /\ d.renderMd = c.renderMd
          /\ d.codeBlocks = c.codeBlocks
          /\ d.mathExtractions = c.mathExtractions
          /\ d.imageExtractions = c.imageExtractions
    /\ c.pc \in {"batch", "cleanup", "done"} =>
          d.rendered = c.rendered /\ d.mathHtml = c.mathHtml

WrappedSite(html, recs, k, j) ==
    /\ SiteAt(html, recs, k, j)
    /\ j > 1
    /\ html[j - 1].c = "<p>"
    /\ At(html, <<"</p>">>, j + Len(recs[k].placeholder))

\* The tag of the image of record k stands at position i of html.
TagAt(html, tags, k, i) ==
    /\ i + Len(tags[k]) - 1 <= Len(html)
    /\ Plain(SubSeq(html, i, i + Len(tags[k]) - 1)) = Plain(tags[k])

\* C26: an image placeholder that the renderer wrapped as
\* <p>PLACEHOLDER</p> is replaced, paragraph tags included, by the tag
\* of its image; any other is replaced in place; and after the
\* substitution no placeholder of an image is left in the HTML.
C26_WrappedPlaceholders ==
    \A p \in Conversions :
        LET c    == conv[p]
            recs == c.imageExtractions
            tags == [k \in DOMAIN c.tasks |-> c.tasks[k].tag]
            out  == ImageSitesReplaced(c.mathHtml, recs, tags, 1)
        IN  ImagesRestored(c) =>
              /\ Len(c.html) = Len(out)
              /\ \A k \in DOMAIN recs : \A j \in 1..Len(c.mathHtml) :
                     SiteAt(c.mathHtml, recs, k, j) =>
                        LET before ==
                               ImageSitesReplaced(SubSeq(c.mathHtml, 1, j - 1),
                                                  recs, tags, 1)
                            at == IF WrappedSite(c.mathHtml, recs, k, j)
                                  THEN Len(before) ELSE Len(before) + 1
                        IN  /\ TagAt(c.html, tags, k, at)
                            /\ WrappedSite(c.mathHtml, recs, k, j) =>
                                  (at = 1 \/ c.html[at - 1].c # "<p>")
              /\ Sites(c.html, recs, 1) = {}
              /\ \A i \in 1..Len(c.html) : c.html[i].c # "GDOCS_IM"

\* C29: the HTML a conversion returns holds none of the placeholder
\* tokens GDOCS_CB<n>, GDOCS_CI<n>, GDOCS_MD<n>, GDOCS_MI<n>, GDOCS_IM<n>,
\* also when a code span lies within a math span or an image embed.
C29_NoPlaceholderLeak ==
    \A p \in Conversions :
        conv[p].pc = "done" => ~HasToken(conv[p].returned)

\* ---------------------------------------------------------------------
\* Unit: extractImageEmbeds on one double-bracket embed
\* ---------------------------------------------------------------------

MaxSuffixFrags == 3

SuffixFrags == {<<"2">>, <<"0">>, <<"x">>, <<" ">>, <<"a">>}

EmbedPaths ==
    {<<"p", "i", "c", ".", "s", "v", "g">>,
     <<"p", "i", "c", ".", "p", "n", "g">>,
     <<" ", "p", ".", "S", "v", "G", " ">>,
     <<"s", "v", "g">>}

\* The two examples of the specification.
SvgWidthExample ==
    Wiki(<<"p", "i", "c", ".", "s", "v", "g", "|", "2", "0", "0">>)
CaptionExample ==
    Wiki(<<"p", "i", "c", ".", "p", "n", "g", "|",
           "a", " ", "c", "a", "p", "t", "i", "o", "n">>)

\* ![[path]] and ![[path|suffix]], alone or inside a line of text.
EmbedTexts ==
    {Wiki(path) : path \in EmbedPaths}
      \cup {Wiki(path \o <<"|">> \o Flatten(fs)) :
               path \in EmbedPaths,
               fs \in SeqsUpTo(SuffixFrags, MaxSuffixFrags)}
      \cup {<<"t", " ">> \o Wiki(path \o <<"|">> \o Flatten(fs)) \o <<"\n">> :
               path \in EmbedPaths, fs \in SeqsUpTo(SuffixFrags, 1)}
      \cup {SvgWidthExample, CaptionExample}

ImageInit ==
    /\ arg \in {Input(t) : t \in EmbedTexts}
    /\ ret = NoRet
    /\ fpc = "start"
    /\ NoConversion

CallExtractImageEmbeds ==
    /\ fpc = "start"
    /\ LET r == extractImageEmbeds(arg)
       IN  ret' = [ret EXCEPT !.cleaned = r.cleaned, !.recs = r.images]
    /\ fpc' = "extracted"
    /\ UNCHANGED <<arg, conv, storeCalls>>

ImageNext == CallExtractImageEmbeds

ImageSpec == ImageInit /\ [][ImageNext]_vars

\* The embed of arg: ![[ at a, the first | or ] at b, ]] at e.
EmbedAt(t, a, b, e) ==
    /\ At(t, <<"!", "[", "[">>, a) /\ At(t, <<"]", "]">>, e)
    /\ a + 3 <= b /\ b <= e
    /\ t[b].c \in {"|", "]"}
    /\ \A k \in (a + 3)..(b - 1) : t[k].c \notin {"|", "]"}
    /\ \A k \in b..(e - 1) : t[k].c # "]"

AllDigits(t) == t # <<>> /\ \A k \in 1..Len(t) : t[k].c \in Digits

\* t is a number, or two numbers with an x between them.
NumberOrWxH(t) ==
    \/ AllDigits(t)
    \/ \E k \in 1..Len(t) :
          /\ t[k].c = "x"
          /\ AllDigits(SubSeq(t, 1, k - 1))
          /\ AllDigits(SubSeq(t, k + 1, Len(t)))

\* The longest prefix of t made of digits.
LeadingNumber(t) ==
    SubSeq(t, 1, Min({k \in 0..Len(t) :
                        k = Len(t) \/ t[k + 1].c \notin Digits}))

\* Without regard to case, name ends in .svg.
EndsInSvg(name) ==
    /\ Len(name) >= 4
    /\ name[Len(name) - 3].c = "."
    /\ name[Len(name) - 2].c \in {"s", "S"}
    /\ name[Len(name) - 1].c \in {"v", "V"}
    /\ name[Len(name)].c \in {"g", "G"}

\* C11: of a double-bracket embed, a suffix that is a number or WxH sets
\* width to the first number and leaves alt empty; any other suffix sets alt
\* to the trimmed suffix and leaves width null; isSvg is true exactly when
\* the vault path ends in .svg, whatever the case; the two examples give
\* pic.svg / 200 / svg, and alt "a caption" / width null.
C11_PipeSuffix ==
    fpc = "extracted" =>
      /\ \A a, b, e \in 1..Len(arg) :
            EmbedAt(arg, a, b, e) =>
              LET suffix == Trim(SubSeq(arg, b + 1, e - 1))
                  path   == Trim(SubSeq(arg, a + 3, b - 1))
              IN  /\ Len(ret.recs) = 1
                  /\ ret.recs[1].original = SubSeq(arg, a, e + 1)
                  /\ ret.recs[1].vaultPath = path
                  /\ ret.recs[1].isSvg = EndsInSvg(path)
                  /\ IF NumberOrWxH(suffix)
                     THEN /\ ret.recs[1].width = LeadingNumber(suffix)
                          /\ ret.recs[1].width # Null
                          /\ ret.recs[1].alt = <<>>
                     ELSE /\ ret.recs[1].alt = suffix
                          /\ ret.recs[1].width = Null
      /\ Plain(arg) = SvgWidthExample =>
            /\ Plain(ret.recs[1].vaultPath)
                  = <<"p", "i", "c", ".", "s", "v", "g">>
            /\ Plain(ret.recs[1].width) = <<"2", "0", "0">>
            /\ ret.recs[1].isSvg
      /\ Plain(arg) = CaptionExample =>
            /\ Plain(ret.recs[1].alt)
                  = <<"a", " ", "c", "a", "p", "t", "i", "o", "n">>
            /\ ret.recs[1].width = Null

\* An embed with a WxH suffix padded with blanks, of a path in capitals,
\* has been extracted.
C11_Witness ==
    /\ fpc = "extracted"
    /\ Len(ret.recs) = 1
    /\ ret.recs[1].isSvg
    /\ \E k \in 1..Len(arg) : arg[k].c = "S"
    /\ Plain(ret.recs[1].width) = <<"2">>
    /\ \E k \in 2..(Len(arg) - 1) : arg[k].c = "x" /\ arg[k + 1].c = "0"

\* ---------------------------------------------------------------------
\* Unit: addTableOfContents on a document of headings and paragraphs
\* ---------------------------------------------------------------------

MaxTocFrags == 4     \* elements of a document
MaxHeadings == 11    \* headings of a document of many headings

Heading(open, content, level) == <<open>> \o content \o <<CloseTag(level)>>

\* The example of the specification.
TocExample == Heading("<h1>", <<"A">>, 1) \o Heading("<h2>", <<"B">>, 2)

\* Headings of three levels, with and without text, and a paragraph.
TocFrags ==
    {Heading("<h1>", <<"A">>, 1),
     Heading("<h2>", <<"B">>, 2),
     Heading("<h3>", <<"<b>", "a", "</b>", " ", "1">>, 3),
     Heading("<h1>", <<" ">>, 1),
     Heading("<h2>", <<"<b>", "</b>">>, 2),
     Heading("<h2 class=\"x\">", <<"1">>, 2),
     Heading("<h3>", <<"!">>, 3),
     <<"<p>", "a", "</p>">>}

ManyFrags == {Heading("<h2>", <<"1">>, 2), Heading("<h3>", <<"1", "1">>, 3),
              Heading("<h2>", <<"!">>, 2), Heading("<h2>", <<>>, 2)}

TocTexts ==
    {Flatten(fs) : fs \in SeqsUpTo(TocFrags, MaxTocFrags)}
      \cup {RunWith(f, k, j, g) :
               f \in ManyFrags, k \in 0..MaxHeadings, j \in {0, 1, 10},
               g \in ManyFrags}

TocInit ==
    /\ arg \in {Input(t) : t \in TocTexts}
    /\ ret = NoRet
    /\ fpc = "start"
    /\ NoConversion

CallAddTableOfContents ==
    /\ fpc = "start"
    /\ ret' = [ret EXCEPT !.cleaned = addTableOfContents(arg),
                          !.recs = parseHeadings(arg)]
    /\ fpc' = "toc"
    /\ UNCHANGED <<arg, conv, storeCalls>>

TocNext == CallAddTableOfContents

TocSpec == TocInit /\ [][TocNext]_vars

\* The headings of a document whose headings do not nest: the opening
\* tags, and for each the closing tag that follows it.
HeadingCloseOf(t, i) ==
    Min({j \in (i + 1)..Len(t) : CloseLevel(t[j].c) # 0})

NonEmptyHeadings(t) ==
    {i \in 1..Len(t) :
        /\ OpenLevel(t[i].c) # 0
        /\ \E k \in (i + 1)..(HeadingCloseOf(t, i) - 1) :
              t[k].c \notin Tags \cup Whitespace}

EmptyHeadings(t) ==
    {i \in 1..Len(t) : OpenLevel(t[i].c) # 0} \ NonEmptyHeadings(t)

\* The k-th element of a set of positions.
Nth(S, k) == CHOOSE x \in S : Cardinality({y \in S : y <= x}) = k

\* C13: on HTML none of whose headings has text, addTableOfContents
\* returns its input: no id is injected and no block is inserted.
C13_Identity ==
    (fpc = "toc" /\ NonEmptyHeadings(arg) = {}) => ret.cleaned = arg

\* A document of headings, all of them empty, has gone through.
C13_Witness ==
    /\ fpc = "toc"
    /\ NonEmptyHeadings(arg) = {}
    /\ Cardinality(EmptyHeadings(arg)) >= 2
    /\ \E k \in 1..Len(arg) : arg[k].c = "<p>"

\* The <li> elements of the output and their parts.
TocItems(out) == {q \in 1..Len(out) : out[q].c = "<li style=\"padding-left:"}
NextOf(out, q, ch) == Min({r \in q..Len(out) : out[r].c = ch})
ItemIndent(out, q) ==
    Plain(SubSeq(out, q + 1, NextOf(out, q, "px;margin:4px 0;\">") - 1))
ItemAnchor(out, q) ==
    Plain(SubSeq(out, NextOf(out, q, "<a href=\"#") + 1,
                 NextOf(out, q, "\" style=link>") - 1))
ItemText(out, q) ==
    SubSeq(out, NextOf(out, q, "\" style=link>") + 1,
           NextOf(out, q, "</a></li>") - 1)

\* The heading that opens at position i of the input stands in the output
\* with the id anchor, its content as it was.
HeadingHasId(t, out, i, anchor) ==
    LET level == OpenLevel(t[i].c)
        close == HeadingCloseOf(t, i)
    IN  \E a, r \in 1..Len(out) :
           /\ a < r - 1
           /\ out[a].c = OpenWithId(level) /\ out[a].src = 0
           /\ Plain(SubSeq(out, a + 1, r - 2)) = anchor
           /\ out[r - 1].c = "\">"
           /\ r + (close - i - 1) <= Len(out)
           /\ \A m \in 0..(close - i - 2) : out[r + m] = t[i + 1 + m]
           /\ out[r + (close - i - 1)].c = CloseTag(level)

ExampleOutput ==
    <<"<h1 id=\"", "t", "o", "c", "-", "1", "-", "a", "\">", "A", "</h1>",
      "\n", "<div style=toc>", "\n",
      "<p style=toc>Table of Contents</p>", "\n", "<ul style=toc>", "\n",
      "<li style=\"padding-left:", "0", "px;margin:4px 0;\">",
      "<a href=\"#", "t", "o", "c", "-", "1", "-", "a", "\" style=link>",
      "A", "</a></li>", "\n",
      "<li style=\"padding-left:", "2", "0", "px;margin:4px 0;\">",
      "<a href=\"#", "t", "o", "c", "-", "2", "-", "b", "\" style=link>",
      "B", "</a></li>", "\n", "</ul>", "\n", "</div>", "\n",
      "<h2 id=\"", "t", "o", "c", "-", "2", "-", "b", "\">", "B", "</h2>">>

C15_DistinctIds ==
    fpc = "toc" =>
       /\ \A k, m \in 1..Len(ret.recs) :
             k # m => Plain(ret.recs[k].id) # Plain(ret.recs[m].id)
       /\ \A q, r \in TocItems(ret.cleaned) :
             q # r => ItemAnchor(ret.cleaned, q) # ItemAnchor(ret.cleaned, r)

\* Eleven headings: nine of the text 1, the tenth without a letter or
\* digit, the eleventh of the text 1 again.
C15_Witness ==
    /\ fpc = "toc"
    /\ Len(ret.recs) = 11
    /\ Plain(ret.recs[1].text) = <<"1">>
    /\ Slug(ret.recs[10].text) = <<>>
    /\ Plain(ret.recs[11].text) = <<"1">>

\* ---------------------------------------------------------------------
\* Unit: cleanHtmlForGoogleDocs applied once and once more
\* ---------------------------------------------------------------------

MaxCleanFrags == 3

\* A code block as the renderer emits it for a fence with a language, a
\* paragraph that holds a math container, a table cell, and their parts.
CleanFrags ==
    {<<"<p>">>, <<"</p>">>, <<" ">>, <<"x">>,
     <<"<pre", ">", "<code", " class=\"x\"", ">", "x", "</code>", "</pre>">>,
     <<"<p", " class=\"x\"", ">">>,
     <<"<table", ">", "<td", " data-a=\"b\"", ">", "x", "</td>", "</table>">>,
     <<"<th", " style=\"s\"", ">">>,
     <<"<blockquote", ">">>,
     <<"<mjx-container>", "x", "</mjx-container>">>}

CleanTexts == {Flatten(fs) : fs \in SeqsUpTo(CleanFrags, MaxCleanFrags)}

CleanInit ==
    /\ arg \in {Input(t) : t \in CleanTexts}
    /\ ret = NoRet
    /\ fpc = "start"
    /\ NoConversion

CallCleanHtml ==
    /\ fpc = "start"
    /\ ret' = [ret EXCEPT !.cleaned = cleanHtmlForGoogleDocs(arg)]
    /\ fpc' = "cleaned"
    /\ UNCHANGED <<arg, conv, storeCalls>>

CallCleanHtmlAgain ==
    /\ fpc = "cleaned"
    /\ ret' = [ret EXCEPT !.out = cleanHtmlForGoogleDocs(ret.cleaned)]
    /\ fpc' = "cleaned twice"
    /\ UNCHANGED <<arg, conv, storeCalls>>

CleanNext == CallCleanHtml \/ CallCleanHtmlAgain

CleanSpec == CleanInit /\ [][CleanNext]_vars

\* C17: cleanHtmlForGoogleDocs applied to its own output returns it
\* unchanged.
C17_Idempotent ==
    fpc = "cleaned twice" => Plain(ret.out) = Plain(ret.cleaned)

\* ---------------------------------------------------------------------
\* docx-builder.ts: the DOM walker
\* ---------------------------------------------------------------------

\* The nodes of the parsed document.  A text node has its text (a sequence
\* of characters, "\\(" "\\)" "\\[" "\\]" being the LaTeX delimiters); an
\* element has its tag in capitals, its href and src attributes ("" when
\* absent), its width attribute as parseInt reads it (0 when absent) and
\* its child nodes.
Text(t) ==
    [kind |-> "text", tag |-> "", href |-> "", src |-> "", width |-> 0,
     children |-> <<>>, text |-> t]
El(tag, children) ==
    [kind |-> "el", tag |-> tag, href |-> "", src |-> "", width |-> 0,
     children |-> children, text |-> <<>>]
Link(href, children) == [El("A", children) EXCEPT !.href = href]
Img(src) == [El("IMG", <<>>) EXCEPT !.src = src]
ImgOfWidth(src, width) == [Img(src) EXCEPT !.width = width]

\* node.textContent and, of a list of nodes, the texts one after the other.
RECURSIVE textContent(_)
RECURSIVE TextOfAll(_)
textContent(node) ==
    IF node.kind = "text" THEN node.text ELSE TextOfAll(node.children)
TextOfAll(nodes) ==
    IF nodes = <<>> THEN <<>>
    ELSE textContent(Head(nodes)) \o TextOfAll(Tail(nodes))

\* el.children: the child nodes that are elements.
ElementChildren(el) == SelectSeq(el.children, LAMBDA n : n.kind = "el")

\* el.querySelector('img') !== null
RECURSIVE HasImg(_)
HasImg(node) ==
    /\ node.kind = "el"
    /\ \/ node.tag = "IMG"
       \/ \E k \in 1..Len(node.children) : HasImg(node.children[k])

\* The runs of a paragraph.  link is "" and children is empty but for an
\* ExternalHyperlink, whose children is the one run it was made of; width
\* and height are 0 but for an ImageRun.
TextRun(text, bold, italics, code) ==
    [kind |-> "TextRun", text |-> text, bold |-> bold, italics |-> italics,
     code |-> code, link |-> "", width |-> 0, height |-> 0,
     children |-> <<>>]
ExternalHyperlink(run, link) ==
    [kind |-> "ExternalHyperlink", text |-> <<>>, bold |-> FALSE,
     italics |-> FALSE, code |-> FALSE, link |-> link, width |-> 0,
     height |-> 0, children |-> <<run>>]
ImageRun(data, width, height) ==
    [kind |-> "ImageRun", text |-> data, bold |-> FALSE, italics |-> FALSE,
     code |-> FALSE, link |-> "", width |-> width, height |-> height,
     children |-> <<>>]
BreakRun == TextRun(<<"break">>, FALSE, FALSE, FALSE)
ImagePlaceholder == TextRun(<<"[Image]">>, FALSE, TRUE, FALSE)

\* What fetch, atob and the Image element do with a src, and what
\* canvas.toBlob does with a LaTeX string, in the environment env:
\* env.img is "ok", "undecodable" (the bytes arrive, the Image element
\* fires onerror) or "unfetchable" (fetch rejects or atob throws) for the
\* src "s1"; any other src is a sound picture of 1200 x 800; env.latex
\* tells whether rendering a LaTeX string that holds "q" rejects.
FetchOutcome(src, env) == IF src = "s1" THEN env.img ELSE "ok"
renderRejects(latex, env) ==
    env.latex /\ \E k \in 1..Len(latex) : latex[k] = "q"

\* Math.round(height * (maxWidth / imgWidth))
ScaledHeight(height, maxWidth, imgWidth) ==
    (2 * height * maxWidth + imgWidth) \div (2 * imgWidth)

\* The width and height fetchImageData returns for a src it can fetch:
\* the natural size of the picture, or the default size when the Image
\* element fires onerror.
Dimensions(src, env) ==
    IF FetchOutcome(src, env) = "undecodable"
    THEN [width |-> 500, height |-> 300]
    ELSE IF src = "s1" THEN [width |-> 100, height |-> 80]
    ELSE [width |-> 1200, height |-> 800]

\* fetchImageData for an img element, then the scaling to maxWidth; <<>>
\* when it throws.
FetchedImage(el, env, maxWidth) ==
    LET size     == Dimensions(el.src, env)
        imgWidth == IF el.width # 0 THEN el.width ELSE size.width
    IN  IF FetchOutcome(el.src, env) = "unfetchable" THEN <<>>
        ELSE IF imgWidth > maxWidth
        THEN <<ImageRun(<<"bytes-of", el.src>>, maxWidth,
                        ScaledHeight(size.height, maxWidth, imgWidth))>>
        ELSE <<ImageRun(<<"bytes-of", el.src>>, imgWidth, size.height)>>

\* The context of the walk.
WalkContext(bold, italic, code, hyperlink) ==
    [bold |-> bold, italic |-> italic, code |-> code,
     hyperlink |-> hyperlink]
defaultCtx == WalkContext(FALSE, FALSE, FALSE, "")

\* A walker that makes the hyperlink at the a element, around the runs of
\* its children.
RECURSIVE walkWrappingLinks(_, _, _)
RECURSIVE WrapChildren(_, _, _)
walkWrappingLinks(node, ctx, env) ==
    IF node.kind = "text"
    THEN IF node.text = <<>> THEN <<>>
         ELSE <<TextRun(node.text, ctx.bold, ctx.italic, ctx.code)>>
    ELSE LET runs == WrapChildren(node.children, ctx, env)
         IN  IF node.tag = "A" /\ node.href # ""
             THEN <<[ExternalHyperlink(BreakRun, node.href)
                        EXCEPT !.children = runs]>>
             ELSE runs
WrapChildren(nodes, ctx, env) ==
    IF nodes = <<>> THEN <<>>
    ELSE walkWrappingLinks(Head(nodes), ctx, env)
             \o WrapChildren(Tail(nodes), ctx, env)

RECURSIVE walkInlineNodes(_, _, _)
RECURSIVE WalkChildren(_, _, _)
walkInlineNodes(node, ctx, env) ==
    IF node.kind = "text"
    THEN IF node.text = <<>> THEN <<>>
         ELSE LET run == TextRun(node.text, ctx.bold, ctx.italic, ctx.code)
              IN  IF ctx.hyperlink # ""
                  THEN <<ExternalHyperlink(run, ctx.hyperlink)>>
                  ELSE <<run>>
    ELSE LET tag    == node.tag
             newCtx ==
                 WalkContext(ctx.bold \/ tag \in {"STRONG", "B"},
                             ctx.italic \/ tag \in {"EM", "I"},
                             ctx.code \/ tag = "CODE",
                             IF tag = "A" /\ node.href # "" THEN node.href
                             ELSE ctx.hyperlink)
         IN  IF tag = "BR" THEN <<BreakRun>>
             ELSE IF tag = "IMG"
             THEN LET img == FetchedImage(node, env, 600)
                  IN  IF img = <<>> THEN <<ImagePlaceholder>> ELSE img
             ELSE WalkChildren(node.children, newCtx, env)
WalkChildren(nodes, ctx, env) ==
    IF nodes = <<>> THEN <<>>
    ELSE walkInlineNodes(Head(nodes), ctx, env)
             \o WalkChildren(Tail(nodes), ctx, env)

\* /\\\([\s\S]*?\\\)|\\\[[\s\S]*?\\\]/ at position j of text: the position
\* of the closing delimiter, 0 when there is no match.
LatexEnd(text, j) ==
    LET close  == IF text[j] = "\\(" THEN "\\)"
                  ELSE IF text[j] = "\\[" THEN "\\]" ELSE ""
        closes == {k \in (j + 1)..Len(text) : text[k] = close}
    IN  IF close = "" \/ closes = {} THEN 0 ELSE Min(closes)

containsLatex(text) == \E j \in 1..Len(text) : LatexEnd(text, j) # 0

\* renderLatexToPng and the cap on the width; the text is measured at 10
\* units a character.
LatexRun(latex, isDisplay, env) ==
    LET padding == IF isDisplay THEN 20 ELSE 4
        offset  == 10 * Len(latex) + 2 * padding
        width   == IF offset + 2 * padding > 50
                   THEN offset + 2 * padding ELSE 50
        cap     == IF isDisplay THEN 500 ELSE 300
    IN  IF renderRejects(latex, env)
        THEN TextRun(latex, FALSE, TRUE, FALSE)
        ELSE ImageRun(<<"png-of">> \o latex,
                      IF width < cap THEN width ELSE cap, 30 + 2 * padding)

\* processLatexInText: the parts of text.split, from position i on.
RECURSIVE LatexParts(_, _, _, _)
LatexParts(text, i, ctx, env) ==
    LET starts == {j \in i..Len(text) : LatexEnd(text, j) # 0}
    IN  IF starts = {}
        THEN IF i > Len(text) THEN <<>>
             ELSE <<TextRun(SubSeq(text, i, Len(text)), ctx.bold,
                            ctx.italic, ctx.code)>>
        ELSE LET j == Min(starts)
                 e == LatexEnd(text, j)
             IN  (IF j > i
                  THEN <<TextRun(SubSeq(text, i, j - 1), ctx.bold,
                                 ctx.italic, ctx.code)>>
                  ELSE <<>>)
                   \o <<LatexRun(SubSeq(text, j + 1, e - 1),
                                 text[j] = "\\[", env)>>
                   \o LatexParts(text, e + 1, ctx, env)

processLatexInText(text, ctx, env) == LatexParts(text, 1, ctx, env)

\* The blocks of the document: a Paragraph with its runs, its heading
\* level (0 for none) and the rest of its options under one name.
Paragraph(children, heading, style) ==
    [kind |-> "Paragraph", children |-> children, heading |-> heading,
     style |-> style]

HEADING_MAP == [tag \in {"H1", "H2", "H3", "H4", "H5", "H6"} |->
                  CASE tag = "H1" -> 1 [] tag = "H2" -> 2 [] tag = "H3" -> 3
                    [] tag = "H4" -> 4 [] tag = "H5" -> 5 [] tag = "H6" -> 6]

\* text.split('\n')
RECURSIVE Lines(_)
Lines(text) ==
    LET nl == {k \in 1..Len(text) : text[k] = "\n"}
    IN  IF nl = {} THEN <<text>>
        ELSE <<SubSeq(text, 1, Min(nl) - 1)>>
                 \o Lines(SubSeq(text, Min(nl) + 1, Len(text)))

\* text.trim() is empty
Blank(text) == \A k \in 1..Len(text) : text[k] \in Whitespace

RECURSIVE convertBlockElement(_, _)
RECURSIVE ConvertChildren(_, _)
RECURSIVE QuoteChildren(_, _)
convertBlockElement(el, env) ==
    LET tag  == el.tag
        text == textContent(el)
    IN  IF tag \in DOMAIN HEADING_MAP
        THEN LET children ==
                     IF containsLatex(text)
                     THEN processLatexInText(text, defaultCtx, env)
                     ELSE SelectSeq(walkInlineNodes(el, defaultCtx, env),
                              LAMBDA r : r.kind \in {"TextRun", "ImageRun"})
             IN  <<Paragraph(IF children # <<>> THEN children
                             ELSE <<TextRun(text, FALSE, FALSE, FALSE)>>,
                             HEADING_MAP[tag], "heading")>>
        ELSE IF tag = "P"
        THEN IF Blank(text) /\ ~HasImg(el) THEN <<>>
             ELSE IF containsLatex(text)
             THEN <<Paragraph(processLatexInText(text, defaultCtx, env),
                              0, "plain")>>
             ELSE <<Paragraph(walkInlineNodes(el, defaultCtx, env),
                              0, "plain")>>
        ELSE IF tag = "PRE"
        THEN [k \in 1..Len(Lines(text)) |->
                Paragraph(<<TextRun(IF Lines(text)[k] = <<>> THEN <<" ">>
                                    ELSE Lines(text)[k],
                                    FALSE, FALSE, TRUE)>>,
                          0, "code block")]
        ELSE IF tag = "BLOCKQUOTE"
        THEN LET paragraphs == QuoteChildren(ElementChildren(el), env)
             IN  IF paragraphs # <<>> THEN paragraphs
                 ELSE <<Paragraph(<<TextRun(text, FALSE, TRUE, FALSE)>>,
                                  0, "blockquote")>>
        ELSE IF tag \in {"UL", "OL"}
        THEN LET lis == SelectSeq(ElementChildren(el),
                                  LAMBDA n : n.tag = "LI")
             IN  [k \in 1..Len(lis) |->
                    Paragraph(<<TextRun(textContent(lis[k]),
                                        FALSE, FALSE, FALSE)>>,
                              0, IF tag = "UL" THEN "bullet"
                                 ELSE "numbering")]
        ELSE IF tag = "IMG"
        THEN LET img == FetchedImage(el, env, 550)
             IN  IF img = <<>> THEN <<Paragraph(<<ImagePlaceholder>>,
                                               0, "plain")>>
                 ELSE <<Paragraph(img, 0, "centered")>>
        ELSE IF tag = "HR"
        THEN <<Paragraph(<<>>, 0, "rule")>>
        ELSE IF tag \in {"DIV", "SECTION", "ARTICLE", "MAIN"}
        THEN ConvertChildren(ElementChildren(el), env)
        ELSE IF ~Blank(text)
        THEN <<Paragraph(<<TextRun(text, FALSE, FALSE, FALSE)>>,
                         0, "plain")>>
        ELSE <<>>
ConvertChildren(els, env) ==
    IF els = <<>> THEN <<>>
    ELSE convertBlockElement(Head(els), env)
             \o ConvertChildren(Tail(els), env)
\* The loop of the BLOCKQUOTE branch: every Paragraph a child was converted
\* to is made anew from the child's text.
QuoteChildren(els, env) ==
    IF els = <<>> THEN <<>>
    ELSE LET child == Head(els)
             ps    == convertBlockElement(child, env)
         IN  [k \in 1..Len(ps) |->
                Paragraph(<<TextRun(textContent(child),
                                    FALSE, TRUE, FALSE)>>,
                          0, "blockquote")]
               \o QuoteChildren(Tail(els), env)


\* ---------------------------------------------------------------------
\* htmlToDocx as a state machine: one step for each top-level element of
\* the body, whose conversion awaits its images and formulas one after the
\* other, and one for Packer.toBlob
\* ---------------------------------------------------------------------

MaxBlocks == 2     \* top-level elements of a body

DocxBlocks ==
    {El("P", <<Text(<<"a">>), El("B", <<Text(<<"b">>)>>)>>),
     El("P", <<El("EM", <<El("CODE", <<Text(<<"c">>)>>)>>),
               Link("u", <<Text(<<"d">>)>>)>>),
     El("P", <<Text(<<"a">>), Img("s1")>>),
     El("P", <<El("B", <<Text(<<"b">>)>>), Text(<<"\\(", "x", "\\)">>)>>),
     El("P", <<Text(<<"\\[", "q", "\\]">>)>>),
     El("P", <<Text(<<" ">>)>>),
     El("P", <<Text(<<"a">>), El("BR", <<>>)>>),
     El("H1", <<Text(<<"A">>), Link("u", <<Text(<<"b">>)>>)>>),
     El("H2", <<El("EM", <<Text(<<"a">>)>>), Img("s1")>>),
     El("H2", <<Text(<<"\\(", "q", "\\)">>)>>),
     Img("s1"), Img("s2"),
     El("HR", <<>>),
     El("DIV", <<El("P", <<Text(<<"a">>)>>), Img("s1")>>),
     El("PRE", <<Text(<<"x", "\n", "y">>)>>),
     El("UL", <<El("LI", <<Text(<<"a">>), Img("s1")>>)>>),
     El("BLOCKQUOTE", <<El("P", <<Img("s1")>>)>>),
     El("BLOCKQUOTE", <<El("P", <<Text(<<"a">>)>>)>>),
     El("SPAN", <<Text(<<"a">>)>>),
     El("P", <<Link("u", <<Text(<<"a">>),
                           Link("v", <<El("B", <<Text(<<"b">>)>>)>>),
                           Text(<<"c">>)>>)>>),
     El("P", <<ImgOfWidth("s2", 300)>>),
     ImgOfWidth("s2", 900)}

Environments ==
    [img : {"ok", "undecodable", "unfetchable"}, latex : BOOLEAN]
Healthy == [img |-> "ok", latex |-> FALSE]

DocxInit ==
    /\ arg \in [body : SeqsUpTo(DocxBlocks, MaxBlocks), env : Environments]
    /\ ret = NoRet
    /\ fpc = "walking"
    /\ NoConversion

\* await convertBlockElement(el) settles for the next element of the body.
ConvertBlockSettles ==
    /\ fpc = "walking"
    /\ Len(ret.recs) < Len(arg.body)
    /\ LET blocks == convertBlockElement(arg.body[Len(ret.recs) + 1],
                                         arg.env)
       IN  ret' = [ret EXCEPT !.recs = Append(@, blocks),
                              !.cleaned = @ \o blocks]
    /\ UNCHANGED <<arg, fpc, conv, storeCalls>>

\* The loop is over: the placeholder of an empty document, the Document,
\* and Packer.toBlob resolves.
PackerResolves ==
    /\ fpc = "walking"
    /\ Len(ret.recs) = Len(arg.body)
    /\ ret' = [ret EXCEPT !.out =
                  IF ret.cleaned = <<>>
                  THEN <<Paragraph(<<TextRun(<<"(empty document)">>,
                                             FALSE, FALSE, FALSE)>>,
                                   0, "plain")>>
                  ELSE ret.cleaned]
    /\ fpc' = "resolved"
    /\ UNCHANGED <<arg, conv, storeCalls>>

DocxNext == ConvertBlockSettles \/ PackerResolves

DocxSpec == DocxInit /\ [][DocxNext]_vars

\* The images under a node, and whether a call made while the element is
\* converted fails in env: the fetch or the decoding of an image that is
\* walked, the rendering of a formula.
RECURSIVE ImagesUnder(_)
ImagesUnder(node) ==
    IF node.kind = "text" THEN {}
    ELSE IF node.tag = "IMG" THEN {node.src}
    ELSE UNION {ImagesUnder(node.children[k]) :
                   k \in 1..Len(node.children)}

RECURSIVE BlockFails(_, _)
BlockFails(el, env) ==
    IF el.tag = "IMG" THEN FetchOutcome(el.src, env) # "ok"
    ELSE IF el.tag \in {"P"} \cup DOMAIN HEADING_MAP
    THEN IF containsLatex(textContent(el))
         THEN renderRejects(textContent(el), env)
         ELSE \E src \in ImagesUnder(el) : FetchOutcome(src, env) # "ok"
    ELSE IF el.tag \in {"DIV", "BLOCKQUOTE"}
    THEN \E k \in 1..Len(el.children) :
            el.children[k].kind = "el" /\ BlockFails(el.children[k], env)
    ELSE FALSE

\* A run that marks a failure: the italic [Image], or the italic source of
\* a formula.
MarkedRun(r) ==
    /\ r.kind = "TextRun" /\ r.italics
    /\ \/ r.text = <<"[Image]">>
       \/ \E k \in 1..Len(r.text) : r.text[k] = "q"

Marked(blocks) ==
    \E b \in 1..Len(blocks) : \E r \in 1..Len(blocks[b].children) :
       MarkedRun(blocks[b].children[r])

\* C18: htmlToDocx does not reject; a top-level block whose conversion
\* fails (an image that cannot be fetched or decoded, a formula that cannot
\* be rendered) comes out with a marked placeholder run, and every other
\* block comes out as it does when nothing fails.
C18_BlockIsolation ==
    /\ fpc \in {"walking", "resolved"}
    /\ fpc = "resolved" =>
          /\ ret.out # <<>>
          /\ \A k \in 1..Len(arg.body) :
                IF BlockFails(arg.body[k], arg.env)
                THEN Marked(ret.recs[k])
                ELSE ret.recs[k] = convertBlockElement(arg.body[k], Healthy)
          /\ ret.cleaned # <<>> => ret.out = Flatten(ret.recs)

\* The text nodes under a node, in document order, each with the tags and
\* the hrefs of the elements it lies in, outermost first.
RECURSIVE TextNodes(_, _, _)
RECURSIVE TextNodesOfAll(_, _, _)
TextNodes(node, tags, hrefs) ==
    IF node.kind = "text"
    THEN IF node.text = <<>> THEN <<>>
         ELSE <<[text |-> node.text, tags |-> tags, hrefs |-> hrefs]>>
    ELSE TextNodesOfAll(node.children, tags \cup {node.tag},
                        IF node.tag = "A" /\ node.href # ""
                        THEN Append(hrefs, node.href) ELSE hrefs)
TextNodesOfAll(nodes, tags, hrefs) ==
    IF nodes = <<>> THEN <<>>
    ELSE TextNodes(Head(nodes), tags, hrefs)
             \o TextNodesOfAll(Tail(nodes), tags, hrefs)

\* The run of a text node with the formatting of its ancestors.
RunOf(t) ==
    LET run == TextRun(t.text, t.tags \cap {"STRONG", "B"} # {},
                       t.tags \cap {"EM", "I"} # {}, "CODE" \in t.tags)
    IN  IF t.hrefs = <<>> THEN run
        ELSE ExternalHyperlink(run, t.hrefs[Len(t.hrefs)])

\* C19: in every heading and paragraph, each text node that is not empty
\* (and is not itself a formula) has become a run of its text, bold,
\* italic and monospace as its ancestors in the block say, linked to the
\* href of its nearest a[href] ancestor, whether or not the block holds a
\* formula or a link.
C19_InlineRuns ==
    fpc = "resolved" =>
       \A k \in 1..Len(arg.body) :
          LET el == arg.body[k]
          IN  (/\ el.tag \in {"P"} \cup DOMAIN HEADING_MAP
               /\ ~Blank(textContent(el))) =>
                 /\ Len(ret.recs[k]) = 1
                 /\ LET nodes == TextNodesOfAll(el.children, {}, <<>>)
                        runs  == ret.recs[k][1].children
                    IN  \A n \in 1..Len(nodes) :
                           ~containsLatex(nodes[n].text) =>
                              \E r \in 1..Len(runs) :
                                 runs[r] = RunOf(nodes[n])

\* Whether an a[href] element lies within another one under the node.
RECURSIVE NestedLinks(_, _)
NestedLinks(node, inLink) ==
    /\ node.kind = "el"
    /\ LET link == node.tag = "A" /\ node.href # ""
       IN  \/ link /\ inLink
           \/ \E k \in 1..Len(node.children) :
                 NestedLinks(node.children[k], inLink \/ link)

\* C27: in every run list the walker produces, a Hyperlink run holds
\* only runs that are not Hyperlinks.
C27_NoNestedHyperlink ==
    \A b \in 1..Len(ret.cleaned) :
       \A r \in 1..Len(ret.cleaned[b].children) :
          LET run == ret.cleaned[b].children[r]
          IN  run.kind = "ExternalHyperlink" =>
                 /\ run.children # <<>>
                 /\ \A c \in 1..Len(run.children) :
                        /\ run.children[c].kind # "ExternalHyperlink"
                        /\ run.children[c].children = <<>>

C27_Witness ==
    /\ fpc = "resolved"
    /\ \E k \in 1..Len(arg.body) :
          /\ NestedLinks(arg.body[k], FALSE)
          /\ \E r \in 1..Len(ret.recs[k][1].children) :
                ret.recs[k][1].children[r].kind = "ExternalHyperlink"

\* The pictures of the block arg.body[k]: the img elements whose fetch
\* gave a picture, each with the largest width it may be shown at.
RECURSIVE Pictures(_, _)
Pictures(node, maxWidth) ==
    IF node.kind = "text" THEN <<>>
    ELSE IF node.tag = "IMG"
    THEN IF FetchOutcome(node.src, arg.env) = "unfetchable" THEN <<>>
         ELSE <<[el |-> node, maxWidth |-> maxWidth]>>
    ELSE Flatten([k \in 1..Len(node.children) |->
                     Pictures(node.children[k],
                              IF node.tag = "DIV" THEN 550 ELSE 600)])

\* The image runs of a list of blocks that hold a picture (and not a
\* rendered formula), in order.
ImageRunsOf(blocks) ==
    SelectSeq(Flatten([b \in 1..Len(blocks) |-> blocks[b].children]),
              LAMBDA r : r.kind = "ImageRun" /\ r.text[1] = "bytes-of")

\* The picture was made smaller than it is.
Downscaled(run, size) == run.width < size.width

\* run.width : run.height is size.width : size.height, the height
\* rounded to a whole number.
SameRatio(run, size) ==
    /\ 2 * (run.height * size.width - size.height * run.width) <= size.width
    /\ 2 * (size.height * run.width - run.height * size.width) <= size.width

\* C28: every image run is at most 600 wide inside a paragraph and at
\* most 550 wide as a block of its own, and a picture that was made
\* smaller has kept the ratio of its width to its height.
C28_Downscaling ==
    \A k \in 1..Len(ret.recs) :
       LET el == arg.body[k]
       IN  el.tag \in {"P", "IMG", "DIV"} \cup DOMAIN HEADING_MAP =>
              LET pics == Pictures(el, 550)
                  runs == ImageRunsOf(ret.recs[k])
              IN  /\ Len(runs) = Len(pics)
                  /\ \A n \in 1..Len(pics) :
                         LET size == Dimensions(pics[n].el.src, arg.env)
                         IN  /\ runs[n].width <= pics[n].maxWidth
                             /\ Downscaled(runs[n], size) =>
                                   SameRatio(runs[n], size)

\* ---------------------------------------------------------------------
\* publisher.ts: publishNote
\* ---------------------------------------------------------------------

\* How often publishNote is entered in the publishes explored: the first
\* call and the calls it makes to itself from its catch block.  The code
\* has no such limit.
MaxRuns == 3

\* Documents of the Drive: the one the note is linked to before the
\* publish, and the k-th one that createGoogleDoc makes.
NoId == <<>>

OldDoc == <<"doc", 0>>

NewDoc(k) == <<"doc", k>>

\* Values of the google_doc frontmatter key: none, the link of a
\* document, and a link without a /d/ segment.
NoUrl == [path |-> "", id |-> NoId]

DocUrl(id) == [path |-> "/d/", id |-> id]

FolderUrl == [path |-> "/folders/", id |-> OldDoc]

\* extractDocId: the capture of /\/d\/([a-zA-Z0-9-_]+)/, or null.
extractDocId(url) == IF url.path = "/d/" /\ url.id # NoId THEN url.id ELSE NoId

\* The status of a rejected request; 0 stands for a resolved one.
ErrorStatuses == {401, 403, 500}

Outcomes == {0} \cup ErrorStatuses

PublishInit ==
    /\ arg \in [credentials : BOOLEAN, google_doc : {NoUrl, DocUrl(OldDoc), FolderUrl}]
    /\ ret = [google_doc |-> arg.google_doc, existingUrl |-> NoUrl, action |-> "new",
              created |-> <<>>, result |-> NoUrl, trashed |-> {},
              trashFailed |-> FALSE, writeFailed |-> FALSE,
              err |-> 0, runs |-> 1, settled |-> ""]
    /\ fpc = "start"
    /\ NoConversion

\* Steps 1 to 3: the credentials are validated, getValidToken settles,
\* and the frontmatter is read from the metadata cache.
GetValidToken ==
    /\ fpc = "start"
    /\ \E ok \in BOOLEAN :
          IF ~arg.credentials
          THEN /\ fpc' = "done"
               /\ ret' = [ret EXCEPT !.settled = "unconfigured"]
          ELSE IF ~ok
          THEN /\ fpc' = "done"
               /\ ret' = [ret EXCEPT !.settled = "authentication failed"]
          ELSE /\ fpc' = IF ret.google_doc # NoUrl THEN "modal" ELSE "converting"
               /\ ret' = [ret EXCEPT !.existingUrl = ret.google_doc,
                                     !.action = "new",
                                     !.trashFailed = FALSE,
                                     !.writeFailed = FALSE,
                                     !.err = 0]
    /\ UNCHANGED <<arg, conv, storeCalls>>

\* Step 4: the user answers the modal.
ShowUpdateChoiceModal ==
    /\ fpc = "modal"
    /\ \E choice \in {"update", "new", "cancel"} :
          IF choice = "cancel"
          THEN /\ fpc' = "done"
               /\ ret' = [ret EXCEPT !.settled = "cancelled"]
          ELSE /\ fpc' = "converting"
               /\ ret' = [ret EXCEPT !.action = choice]
    /\ UNCHANGED <<arg, conv, storeCalls>>

\* Step 6: convertNoteToHtml settles; its image uploads use the token.
ConvertNoteToHtml ==
    /\ fpc = "converting"
    /\ \E status \in Outcomes :
          IF status = 0
          THEN fpc' = "creating" /\ ret' = ret
          ELSE fpc' = "catch" /\ ret' = [ret EXCEPT !.err = status]
    /\ UNCHANGED <<arg, conv, storeCalls>>

\* Step 7: createGoogleDoc settles; on success the code goes on to the
\* request that trashes the old document, when there is one to trash.
CreateGoogleDoc ==
    /\ fpc = "creating"
    /\ \E status \in Outcomes :
          IF status = 0
          THEN /\ ret' = [ret EXCEPT
                     !.created = Append(@, NewDoc(Len(@) + 1)),
                     !.result = DocUrl(NewDoc(Len(ret.created) + 1))]
               /\ fpc' = IF /\ ret.action = "update"
                            /\ ret.existingUrl # NoUrl
                            /\ extractDocId(ret.existingUrl) # NoId
                         THEN "trashing" ELSE "frontmatter"
          ELSE fpc' = "catch" /\ ret' = [ret EXCEPT !.err = status]
    /\ UNCHANGED <<arg, conv, storeCalls>>

\* Step 8: the PATCH { trashed: true } on the old document settles; its
\* rejection is caught and logged.
TrashOldDoc ==
    /\ fpc = "trashing"
    /\ \E ok \in BOOLEAN :
          ret' = IF ok
                 THEN [ret EXCEPT !.trashed = @ \cup {extractDocId(ret.existingUrl)}]
                 ELSE [ret EXCEPT !.trashFailed = TRUE]
    /\ fpc' = "frontmatter"
    /\ UNCHANGED <<arg, conv, storeCalls>>

\* Steps 9 and 10: processFrontMatter settles.
ProcessFrontMatter ==
    /\ fpc = "frontmatter"
    /\ \E status \in Outcomes :
          IF status = 0
          THEN /\ fpc' = "done"
               /\ ret' = [ret EXCEPT !.google_doc = ret.result, !.settled = "published"]
          ELSE /\ fpc' = "catch"
               /\ ret' = [ret EXCEPT !.err = status, !.writeFailed = TRUE]
    /\ UNCHANGED <<arg, conv, storeCalls>>

\* The catch block: on 401 or 403 the token is dropped and publishNote
\* calls itself; any other error ends the publish with a notice.
CatchError ==
    /\ fpc = "catch"
    /\ IF ret.err \in {401, 403}
       THEN /\ ret.runs < MaxRuns
            /\ fpc' = "start"
            /\ ret' = [ret EXCEPT !.runs = @ + 1]
       ELSE /\ fpc' = "done"
            /\ ret' = [ret EXCEPT !.settled = "failed"]
    /\ UNCHANGED <<arg, conv, storeCalls>>

PublishNext ==
    \/ GetValidToken
    \/ ShowUpdateChoiceModal
    \/ ConvertNoteToHtml
    \/ CreateGoogleDoc
    \/ TrashOldDoc
    \/ ProcessFrontMatter
    \/ CatchError

PublishSpec == PublishInit /\ [][PublishNext]_vars

\* The parts of the contract of a publish in update mode.
TrashedAfterCreated == ret.trashed # {} => ret.created # <<>>

FailureLeavesOldDoc ==
    (fpc \in {"catch", "done"} /\ ret.created = <<>>) =>
        ret.trashed = {} /\ ret.google_doc = arg.google_doc

TrashFailureNotFatal ==
    (ret.trashFailed /\ ~ret.writeFailed) =>
        /\ fpc \in {"frontmatter", "done"}
        /\ fpc = "done" => ret.settled = "published" /\ ret.google_doc = ret.result

NeverLinksTrashedDoc ==
    fpc = "done" => extractDocId(ret.google_doc) \notin ret.trashed

\* C20: in update mode the old document is trashed only after the new
\* one was created; a failed conversion or creation leaves the old
\* document untrashed and the frontmatter as it was; a failed trashing
\* does not stop the publish, which sets the frontmatter to the new
\* link; and after the publish the frontmatter does not point to a
\* document that the publish trashed.
C20_UpdateOrder ==
    /\ TrashedAfterCreated
    /\ FailureLeavesOldDoc
    /\ TrashFailureNotFatal
    /\ NeverLinksTrashedDoc

\* C25: one publish started by the user makes at most two attempts: the
\* first, and one retry after a 401 or 403.
C25_RetryBounded ==
    fpc \in {"converting", "creating", "trashing", "frontmatter", "catch"} =>
        ret.runs <= 2

\* ---------------------------------------------------------------------
\* exporters.ts: batchPublishFolder
\* ---------------------------------------------------------------------

MAX_BATCH == 50

\* Folders hold up to MaxFewFiles notes, or MAX_BATCH notes and up to
\* MaxExtraFiles more.
MaxFewFiles == 2

MaxExtraFiles == 1

FolderSizes == (0..MaxFewFiles) \cup (MAX_BATCH..(MAX_BATCH + MaxExtraFiles))

UnsplicedLength(n) == n

\* files.splice(MAX_BATCH) on a list of n files: the length that is left.
SplicedLength(n) == IF n > MAX_BATCH THEN MAX_BATCH ELSE n

NeverCancelled(modal) == FALSE

\* modal.isCancelled()
isCancelled(modal) == modal.cancelled

\* How a call of publishNote ends. It resolves when the note was
\* published, and also when the credentials are missing, the
\* authentication failed, the user cancelled the update dialog or the
\* publish failed, since those paths return after a Notice; it rejects
\* only when saveSettings rejects in its catch block.
PublishOutcomes ==
    {"published", "unconfigured", "authentication failed", "cancelled", "failed", "rejected"}

BatchInit ==
    /\ arg \in [pro : BOOLEAN, files : FolderSizes]
    /\ ret = [length |-> 0, i |-> 0, succeeded |-> 0, failed |-> 0,
              modal |-> [open |-> FALSE, cancelled |-> FALSE],
              started |-> 0, running |-> {}, published |-> 0, message |-> <<>>]
    /\ fpc = "start"
    /\ NoConversion

\* The end of the loop: the modal is closed and the summary is shown.
Summary(r) ==
    [r EXCEPT !.modal.open = FALSE,
              !.message = <<isCancelled(r.modal), r.succeeded, r.failed>>]

\* The head of the loop for index i: leave the loop at the end of the
\* list or when cancelled, else call publishNote on files[i].
LoopHead(r, i) ==
    IF i < r.length /\ ~isCancelled(r.modal)
    THEN /\ fpc' = "publishing"
         /\ ret' = [r EXCEPT !.i = i, !.started = @ + 1, !.running = @ \cup {i}]
    ELSE /\ fpc' = "done"
         /\ ret' = Summary([r EXCEPT !.i = i])

\* The feature gate, the collection of the files, the splice, the
\* opening of the modal and the first pass through the head of the loop.
BatchStart ==
    /\ fpc = "start"
    /\ IF ~arg.pro \/ arg.files = 0
       THEN fpc' = "done" /\ ret' = ret
       ELSE LoopHead([ret EXCEPT !.length = SplicedLength(arg.files),
                                 !.modal.open = TRUE], 0)
    /\ UNCHANGED <<arg, conv, storeCalls>>

\* The click handler of the Cancel button.
PressCancel ==
    /\ fpc \in {"publishing", "delay"}
    /\ ret.modal.open
    /\ ret' = [ret EXCEPT !.modal = [open |-> FALSE, cancelled |-> TRUE]]
    /\ UNCHANGED <<arg, fpc, conv, storeCalls>>

\* await publishNote settles: the counters, then the delay between two
\* notes or, after the last note, the end of the loop.
PublishNoteSettles ==
    /\ fpc = "publishing"
    /\ \E outcome \in PublishOutcomes :
          \E r \in {[ret EXCEPT
                       !.running = @ \ {ret.i},
                       !.succeeded = IF outcome # "rejected" THEN @ + 1 ELSE @,
                       !.failed = IF outcome = "rejected" THEN @ + 1 ELSE @,
                       !.published = IF outcome = "published" THEN @ + 1 ELSE @]} :
             IF ret.i < ret.length - 1
             THEN fpc' = "delay" /\ ret' = r
             ELSE LoopHead(r, ret.i + 1)
    /\ UNCHANGED <<arg, conv, storeCalls>>

\* The timer of the 1-second delay fires: i++ and the head of the loop.
DelayElapses ==
    /\ fpc = "delay"
    /\ LoopHead(ret, ret.i + 1)
    /\ UNCHANGED <<arg, conv, storeCalls>>

BatchNext ==
    \/ BatchStart
    \/ PressCancel
    \/ PublishNoteSettles
    \/ DelayElapses

BatchSpec == BatchInit /\ [][BatchNext]_vars

\* C21: batchPublishFolder starts at most 50 publishes, never has two
\* of them running, and starts none once Cancel has been pressed.
C21_BatchLimits ==
    /\ [](ret.started <= 50 /\ Cardinality(ret.running) <= 1)
    /\ [][ret.modal.cancelled => ret'.started = ret.started]_vars

C21_Witness ==
    /\ fpc = "done"
    /\ ret.modal.cancelled
    /\ arg.files > 50
    /\ ret.started >= 2
    /\ ret.started < 50

\* C30: in the summary, succeeded + failed is the number of publishes
\* attempted and succeeded is the number of notes for which a document
\* was made and the frontmatter updated.
C30_SummaryAccuracy ==
    (fpc = "done" /\ ret.message # <<>>) =>
        /\ ret.message[2] + ret.message[3] = ret.started
        /\ ret.message[2] = ret.published

\* ---------------------------------------------------------------------
\* license.ts: validateLicense
\* ---------------------------------------------------------------------

\* Times are counted in days; Date.now() is day Now.
REVALIDATION_INTERVAL_LIFETIME == 7

REVALIDATION_INTERVAL_SUB == 1

OFFLINE_GRACE_PERIOD == 30

Now == 40

NoExpiry == -1

Tiers == {"free", "pro", "premium"}

\* The products asked in turn, premium first.
Products == <<"premium", "pro">>

\* What the verify request for one product comes to: the request
\* rejects, the key is not of this product, the purchase was refunded,
\* the subscription has lapsed, it runs until a later day, it runs
\* without end, or the purchase is a one-time one.
Answers ==
    {"unreachable", "invalid", "refunded", "lapsed", "ends later", "subscription", "lifetime"}

Accepted == {"ends later", "subscription", "lifetime"}

\* The result verifyWithGumroad returns on an accepted answer for the
\* product, and the one it returns when no product accepted the key.
Verified(product, answer) ==
    [tier |-> product, email |-> "buyer",
     expiresAt |-> IF answer = "ends later" THEN Now + 1 ELSE NoExpiry]

NotVerified == [tier |-> "free", email |-> "", expiresAt |-> NoExpiry]

\* now - settings.licenseValidatedAt and the revalidation interval.
timeSinceValidation(settings) == Now - settings.licenseValidatedAt

revalidationInterval(settings) ==
    IF settings.licenseExpiresAt # NoExpiry \/ settings.licenseType = "premium"
    THEN REVALIDATION_INTERVAL_SUB
    ELSE REVALIDATION_INTERVAL_LIFETIME

LicenseInit ==
    /\ arg \in [licenseKey : BOOLEAN, licenseType : Tiers,
                licenseEmail : {"buyer"},
                licenseExpiresAt : {NoExpiry, 1, Now + 1},
                licenseValidatedAt : 0..Now]
    /\ ret = [settings |-> arg, returned |-> "", asked |-> <<>>, saving |-> ""]
    /\ fpc = "start"
    /\ NoConversion

\* The synchronous head of validateLicense, up to its first await.
ValidateLicense ==
    /\ fpc = "start"
    /\ IF ~arg.licenseKey
       THEN /\ ret' = [ret EXCEPT !.settings.licenseType = "free",
                                  !.settings.licenseEmail = "",
                                  !.settings.licenseExpiresAt = NoExpiry,
                                  !.settings.licenseValidatedAt = 0,
                                  !.saving = "no key"]
            /\ fpc' = "saving"
       ELSE IF /\ arg.licenseValidatedAt > 0
               /\ timeSinceValidation(arg) < revalidationInterval(arg)
       THEN IF arg.licenseExpiresAt # NoExpiry /\ Now > arg.licenseExpiresAt
            THEN /\ ret' = [ret EXCEPT !.settings.licenseType = "free",
                                       !.saving = "expired"]
                 /\ fpc' = "saving"
            ELSE /\ ret' = [ret EXCEPT !.returned = arg.licenseType]
                 /\ fpc' = "done"
       ELSE /\ ret' = ret
            /\ fpc' = "verifying"
    /\ UNCHANGED <<arg, conv, storeCalls>>

\* verifyWithGumroad: the request for the next product settles. A
\* rejected request is caught inside the loop like a refused key; on an
\* accepted answer, or after the last product, the result is written to
\* the settings and saveFn is awaited.
GumroadAnswers ==
    /\ fpc = "verifying"
    /\ \E answer \in Answers :
          \E asked \in {Append(ret.asked, answer)} :
             IF answer \notin Accepted /\ Len(asked) < Len(Products)
             THEN /\ ret' = [ret EXCEPT !.asked = asked]
                  /\ fpc' = "verifying"
             ELSE \E result \in {IF answer \in Accepted
                                 THEN Verified(Products[Len(asked)], answer)
                                 ELSE NotVerified} :
                     /\ ret' = [ret EXCEPT
                                  !.asked = asked,
                                  !.settings.licenseType = result.tier,
                                  !.settings.licenseEmail = result.email,
                                  !.settings.licenseExpiresAt = result.expiresAt,
                                  !.settings.licenseValidatedAt = Now,
                                  !.saving = "verified"]
                     /\ fpc' = "saving"
    /\ UNCHANGED <<arg, conv, storeCalls>>

\* saveFn settles. Its rejection inside the try block is the one error
\* the catch block of validateLicense receives.
SaveSettles ==
    /\ fpc = "saving"
    /\ \E ok \in BOOLEAN :
          IF ok
          THEN /\ ret' = [ret EXCEPT !.returned = ret.settings.licenseType]
               /\ fpc' = "done"
          ELSE IF ret.saving = "verified"
          THEN IF /\ arg.licenseValidatedAt > 0
                  /\ timeSinceValidation(arg) < OFFLINE_GRACE_PERIOD
               THEN /\ ret' = [ret EXCEPT !.returned = ret.settings.licenseType]
                    /\ fpc' = "done"
               ELSE /\ ret' = [ret EXCEPT !.settings.licenseType = "free",
                                          !.saving = "downgraded"]
                    /\ fpc' = "saving"
          ELSE /\ ret' = [ret EXCEPT !.returned = "rejected"]
               /\ fpc' = "done"
    /\ UNCHANGED <<arg, conv, storeCalls>>

LicenseNext ==
    \/ ValidateLicense
    \/ GumroadAnswers
    \/ SaveSettles

LicenseSpec == LicenseInit /\ [][LicenseNext]_vars

\* The cached validation was stale and every verification request of
\* the call was rejected.
Unreachable ==
    /\ Len(ret.asked) = Len(Products)
    /\ \A k \in 1..Len(ret.asked) : ret.asked[k] = "unreachable"

\* C22: when the cache is stale and Gumroad cannot be reached,
\* validateLicense returns the cached tier and leaves licenseType as it
\* was while the last validation is less than 30 days old, and goes
\* down to free when it is older.
C22_OfflineGrace ==
    (fpc = "done" /\ Unreachable /\ ret.returned # "rejected") =>
        IF arg.licenseValidatedAt > 0 /\ Now - arg.licenseValidatedAt < 30
        THEN /\ ret.returned = arg.licenseType
             /\ ret.settings.licenseType = arg.licenseType
        ELSE /\ ret.returned = "free"
             /\ ret.settings.licenseType = "free"

====
